---------------------------- MODULE Spec2Model ----------------------------
(***************************************************************************)
(* Model of the GN&C evaluation code (jbussemaker/ADORE-Evaluation-Docs):  *)
(*   src/03_file_based/gnc.py          GNCCalculator (mass, failure rate)  *)
(*   src/03_file_based/gnc_file_evaluation_cmd_line.py   JSON evaluator    *)
(*   src/04_file_based_nfe/gnc_node_factory_evaluator.py XML evaluator     *)
(*   src/01_python_api/gnc_evaluation_api_exercise.py    API evaluator     *)
(*                                                                         *)
(* Numbers.  The catalog failure rates are decimals with five places, so   *)
(* every probability the code computes is a polynomial in x = 10^-5 with   *)
(* integer coefficients.  A probability is kept as its coefficient vector  *)
(* (index k = coefficient of x^k); sums and products are exact, and two    *)
(* values are compared through their canonical base-10^5 digits.  The      *)
(* rounding of the IEEE doubles the code uses is not modelled.  Masses     *)
(* are kept in units of half a kilogram.                                   *)
(***************************************************************************)
EXTENDS Integers, Sequences, FiniteSets, TLC

\* ---------------------------------------------------------------- bounds
MaxSensors   == 2
MaxComputers == 2
MaxActuators == 1
NumTypes     == 2
MaxEdges     == 2

\* ------------------------------------------------------- exact decimals
NDeg  == MaxSensors + MaxComputers + MaxActuators
Base  == 10 ^ 5
NCoef == NDeg + 1

\* position k of a coefficient vector holds the coefficient of x^(k-1);
\* Vec fixes the vector's entries once, so that later reads do not recompute them
Vec(f) == SubSeq(f, 1, NCoef)

DZero    == Vec([k \in 1 .. NCoef |-> 0])
DOne     == Vec([k \in 1 .. NCoef |-> IF k = 1 THEN 1 ELSE 0])
DRate(n) == Vec([k \in 1 .. NCoef |-> IF k = 2 THEN n ELSE 0])

DAdd(a, b) == Vec([k \in 1 .. NCoef |-> a[k] + b[k]])
DSub(a, b) == Vec([k \in 1 .. NCoef |-> a[k] - b[k]])

RECURSIVE ConvSum(_, _, _, _)
ConvSum(a, b, k, i) ==
    IF i > k THEN 0 ELSE a[i] * b[k + 1 - i] + ConvSum(a, b, k, i + 1)

DMul(a, b) == Vec([k \in 1 .. NCoef |-> ConvSum(a, b, k, 1)])

RECURSIVE Carry(_, _)
Carry(a, k) ==
    IF k = 1 THEN a
    ELSE Carry(Vec([a EXCEPT ![k] = a[k] % Base, ![k - 1] = @ + (a[k] \div Base)]), k - 1)

\* canonical digits: position 1 the integer part, the others in 0 .. Base-1
DNormal(a) == Carry(a, NCoef)

DSign(a) ==
    LET n == DNormal(a)
    IN  IF n[1] < 0 THEN -1
        ELSE IF \A k \in 1 .. NCoef : n[k] = 0 THEN 0
        ELSE 1

DIsZero(a) == DSign(a) = 0
DLeq(a, b) == DSign(DSub(b, a)) >= 0
DEq(a, b)  == DNormal(a) = DNormal(b)

\* the decimal int.d1 d2 ... with d1, d2, ... its base-10^5 digits after the point
DLit(int, frac) ==
    Vec([k \in 1 .. NCoef |-> IF k = 1 THEN int
                              ELSE IF k - 1 <= Len(frac) THEN frac[k - 1] ELSE 0])

\* ------------------------------------------------------- Python values
\* an optional argument: None, or Some(v) for a value v that was passed
None    == [some |-> FALSE]
Some(v) == [some |-> TRUE, val |-> v]

Return(v) == [tag |-> "return", value |-> v]
Raise(e)  == [tag |-> "raise", exc |-> e]

\* np.log10: a finite value for a positive argument, -inf (no exception) for 0
Log10(p) == [finite |-> ~DIsZero(p), arg |-> DNormal(p)]

\* ------------------------------------------------------------- catalog
\* GNCCalculator.mass, in units of 0.5 kg
GNC_mass ==
    [S |-> [A |-> 6, B |-> 12, C |-> 18],
     C |-> [A |-> 6, B |-> 10, C |-> 20],
     A |-> [A |-> 7, B |-> 11, C |-> 19]]

\* GNCCalculator.failure_rate, in units of 10^-5
GNC_failure_rate ==
    [S |-> [A |-> 15, B |-> 10, C |-> 5],
     C |-> [A |-> 10, B |-> 4,  C |-> 2],
     A |-> [A |-> 8,  B |-> 20, C |-> 10]]

VARIABLES
    mass,            \* class attribute GNCCalculator.mass
    failure_rate,    \* class attribute GNCCalculator.failure_rate
    pc,              \* "idle" | "branch" | "returned" | "raised"
    call,            \* the operation in progress and its arguments
    failure_rates,   \* calc_failure_rate local: per-stage rate arrays
    conn_matrices,   \* calc_failure_rate local: per-transition matrices
    stack,           \* activation records of _branch_failures
    retval,          \* what the last operation returned or raised
    output_file      \* the file at the evaluators' output path, None when absent

vars == <<mass, failure_rate, pc, call, failure_rates, conn_matrices, stack, retval,
          output_file>>

\* ------------------------------------------------------------ calc_mass
RECURSIVE SumSeq(_)
SumSeq(s) == IF s = <<>> THEN 0 ELSE Head(s) + SumSeq(Tail(s))

KnownTypes(table, kind, types) ==
    \A i \in 1 .. Len(types) : types[i] \in DOMAIN table[kind]

StageMass(kind, types) ==
    SumSeq([i \in 1 .. Len(types) |-> mass[kind][types[i]]])

\* calc_mass as it would be with the actuator stage left out of the sum
CalcMass_NoActuators(sensor_types, computer_types, actuator_types) ==
    IF ~KnownTypes(mass, "S", sensor_types) THEN Raise("KeyError")
    ELSE IF ~KnownTypes(mass, "C", computer_types) THEN Raise("KeyError")
    ELSE IF actuator_types # None /\ ~KnownTypes(mass, "A", actuator_types.val)
         THEN Raise("KeyError")
    ELSE Return(StageMass("S", sensor_types) + StageMass("C", computer_types))

\* calc_mass as it would be with dict.get(type_, 0.) in place of the lookup
CalcMass_DefaultZero(sensor_types, computer_types, actuator_types) ==
    LET Known(kind, types) == SelectSeq(types, LAMBDA t : t \in DOMAIN mass[kind])
    IN  Return(StageMass("S", Known("S", sensor_types))
               + StageMass("C", Known("C", computer_types))
               + (IF actuator_types # None
                  THEN StageMass("A", Known("A", actuator_types.val)) ELSE 0))

\* calc_mass as it would be with each sum started at the second unit
CalcMass_SkipsFirst(sensor_types, computer_types, actuator_types) ==
    LET Rest(types) == IF types = <<>> THEN <<>> ELSE Tail(types)
    IN  IF ~KnownTypes(mass, "S", sensor_types) THEN Raise("KeyError")
        ELSE IF ~KnownTypes(mass, "C", computer_types) THEN Raise("KeyError")
        ELSE IF actuator_types # None /\ ~KnownTypes(mass, "A", actuator_types.val)
             THEN Raise("KeyError")
        ELSE Return(StageMass("S", Rest(sensor_types)) + StageMass("C", Rest(computer_types))
                    + (IF actuator_types # None
                       THEN StageMass("A", Rest(actuator_types.val)) ELSE 0))

CalcMass(sensor_types, computer_types, actuator_types) ==
    IF ~KnownTypes(mass, "S", sensor_types) THEN Raise("KeyError")
    ELSE IF ~KnownTypes(mass, "C", computer_types) THEN Raise("KeyError")
    ELSE IF actuator_types # None /\ ~KnownTypes(mass, "A", actuator_types.val)
         THEN Raise("KeyError")
    ELSE Return(StageMass("S", sensor_types) + StageMass("C", computer_types)
                + (IF actuator_types # None THEN StageMass("A", actuator_types.val) ELSE 0))

\* ---------------------------------------------------- calc_failure_rate
StageRates(kind, types) ==
    SubSeq([i \in 1 .. Len(types) |-> failure_rate[kind][types[i]]], 1, Len(types))

FailureRates(sensor_types, computer_types, actuator_types) ==
    IF actuator_types # None
    THEN <<StageRates("S", sensor_types), StageRates("C", computer_types),
           StageRates("A", actuator_types.val)>>
    ELSE <<StageRates("S", sensor_types), StageRates("C", computer_types)>>

ObjConns(conns, actuator_types, act_conns) ==
    IF actuator_types # None THEN <<conns, act_conns.val>> ELSE <<conns>>

\* numpy index i on an axis of length n: 0-based, a negative index counts
\* from the end, anything else is an IndexError (0 here)
NpIndex(i, n) ==
    IF 0 <= i /\ i < n THEN i + 1
    ELSE IF -n <= i /\ i < 0 THEN n + i + 1
    ELSE 0

EdgeInBounds(e, n_src, n_tgt) == NpIndex(e[1], n_src) # 0 /\ NpIndex(e[2], n_tgt) # 0

\* lines 67-69 as they would be with matrix[i_src, i_tgt] += 1: the entry is
\* the number of times the edge is listed
ConnMatrix_Counting(edges, n_src, n_tgt) ==
    [i \in 1 .. n_src |->
        [j \in 1 .. n_tgt |->
            Cardinality({k \in 1 .. Len(edges) :
                NpIndex(edges[k][1], n_src) = i /\ NpIndex(edges[k][2], n_tgt) = j})]]

ConnMatrix(edges, n_src, n_tgt) ==
    [i \in 1 .. n_src |->
        [j \in 1 .. n_tgt |->
            IF \E k \in 1 .. Len(edges) :
                  NpIndex(edges[k][1], n_src) = i /\ NpIndex(edges[k][2], n_tgt) = j
            THEN 1 ELSE 0]]

ConnMatrices(frs, obj_conns) ==
    [t \in 1 .. Len(obj_conns) |->
        ConnMatrix(obj_conns[t], Len(frs[t]), Len(frs[t + 1]))]

EdgesInBounds(frs, obj_conns) ==
    \A t \in 1 .. Len(obj_conns) : \A k \in 1 .. Len(obj_conns[t]) :
        EdgeInBounds(obj_conns[t][k], Len(frs[t]), Len(frs[t + 1]))

\* the scenarios as they would be if every source, connected or not, were
\* given both outcomes
RECURSIVE Product_IgnoresMask(_, _)
Product_IgnoresMask(mask, i) ==
    IF i > Len(mask) THEN << <<>> >>
    ELSE LET rest == Product_IgnoresMask(mask, i + 1)
             R    == Len(rest)
         IN  SubSeq([k \in 1 .. 2 * R |->
                        <<((k - 1) \div R) = 1>> \o rest[((k - 1) % R) + 1]],
                    1, 2 * R)

\* itertools.product of [False, True] (connected) or [False] per source,
\* in the order the library yields it; positions i .. Len(mask)
RECURSIVE Product(_, _)
Product(mask, i) ==
    IF i > Len(mask) THEN << <<>> >>
    ELSE LET rest    == Product(mask, i + 1)
             choices == IF mask[i] THEN <<FALSE, TRUE>> ELSE <<FALSE>>
             R       == Len(rest)
         IN  SubSeq([k \in 1 .. Len(choices) * R |->
                        <<choices[((k - 1) \div R) + 1]>> \o rest[((k - 1) % R) + 1]],
                    1, Len(choices) * R)

AllOnes(n) == SubSeq([i \in 1 .. n |-> TRUE], 1, n)
AnyTrue(ok) == \E i \in 1 .. Len(ok) : ok[i]

\* the scenario loop as it would be without the guard of line 85
SkipScenario_Never(i_rates, ok_sources) == FALSE

\* the guard of line 85 as it would be without "i_rates > 0"
SkipScenario_AtRoot(i_rates, ok_sources) == ~AnyTrue(ok_sources)

\* the guard of line 85
SkipScenario(i_rates, ok_sources) == i_rates > 0 /\ ~AnyTrue(ok_sources)

RECURSIVE ProdFrom(_, _)
ProdFrom(factors, i) ==
    IF i > Len(factors) THEN DOne ELSE DMul(factors[i], ProdFrom(factors, i + 1))

\* lines 89-95 as they would be without the complement of line 91
OccurrenceProb_NoComplement(rates, ok_sources, src_connected_mask) ==
    ProdFrom([i \in 1 .. Len(rates) |->
                IF ~src_connected_mask[i] THEN DOne ELSE DRate(rates[i])], 1)

\* lines 89-95 as they would be with the product of line 93 taken over the
\* whole array, not over occurrence_prob[src_connected_mask]
OccurrenceProb_AllUnits(rates, ok_sources, src_connected_mask) ==
    ProdFrom([i \in 1 .. Len(rates) |->
                IF ok_sources[i] THEN DSub(DOne, DRate(rates[i])) ELSE DRate(rates[i])], 1)

\* lines 89-95: survived sources count 1 - rate, the others rate; only the
\* sources of the connected mask are multiplied
OccurrenceProb(rates, ok_sources, src_connected_mask) ==
    ProdFrom([i \in 1 .. Len(rates) |->
                IF ~src_connected_mask[i] THEN DOne
                ELSE IF ok_sources[i] THEN DSub(DOne, DRate(rates[i]))
                ELSE DRate(rates[i])], 1)

\* lines 98-101 as they would be if every target counted as connected
ConnectedTargets_All(conn_mat, ok_sources, n_tgt) ==
    SubSeq([j \in 1 .. n_tgt |-> TRUE], 1, n_tgt)

\* lines 98-101 as they would be without the row selection conn_mat[ok_sources, :]:
\* an edge from any source, survived or not, connects its target
ConnectedTargets_AnySource(conn_mat, ok_sources, n_tgt) ==
    SubSeq([j \in 1 .. n_tgt |->
               \E i \in 1 .. Len(ok_sources) : conn_mat[i][j] = 1],
           1, n_tgt)

\* lines 98-101 as they would be with the test of line 101 negated: a target
\* counts as connected when no surviving source has an edge to it
ConnectedTargets_Unconnected(conn_mat, ok_sources, n_tgt) ==
    SubSeq([j \in 1 .. n_tgt |->
               ~\E i \in 1 .. Len(ok_sources) : ok_sources[i] /\ conn_mat[i][j] = 1],
           1, n_tgt)

\* lines 98-101
ConnectedTargets(conn_mat, ok_sources, n_tgt) ==
    SubSeq([j \in 1 .. n_tgt |->
               \E i \in 1 .. Len(ok_sources) : ok_sources[i] /\ conn_mat[i][j] = 1],
           1, n_tgt)

\* lines 110-112 as they would be with the survival probabilities multiplied
AllTgtFailProb_Survive(tgt_rates, connected_targets) ==
    ProdFrom([j \in 1 .. Len(tgt_rates) |->
                IF connected_targets[j] THEN DSub(DOne, DRate(tgt_rates[j])) ELSE DOne], 1)

\* lines 110-112
AllTgtFailProb(tgt_rates, connected_targets) ==
    ProdFrom([j \in 1 .. Len(tgt_rates) |->
                IF connected_targets[j] THEN DRate(tgt_rates[j]) ELSE DOne], 1)

RECURSIVE BranchFailures(_, _, _, _)
RECURSIVE SumScenarios(_, _, _, _, _, _)

\* the body of the scenario loop for scenarios k .. Len(scenarios)
SumScenarios(frs, cms, i_rates, mask, scenarios, k) ==
    IF k > Len(scenarios) THEN DZero
    ELSE
      LET ok_sources        == scenarios[k]
          rates             == frs[i_rates + 1]
          tgt_rates         == frs[i_rates + 2]
          conn_mat          == cms[i_rates + 1]
          calc_downstream   == i_rates < Len(cms) - 1
          occurrence_prob   == OccurrenceProb(rates, ok_sources, mask)
          connected_targets == ConnectedTargets(conn_mat, ok_sources, Len(tgt_rates))
          term ==
            IF SkipScenario(i_rates, ok_sources) THEN DZero
            ELSE IF ~AnyTrue(connected_targets) THEN occurrence_prob
            ELSE DAdd(DMul(occurrence_prob, AllTgtFailProb(tgt_rates, connected_targets)),
                      IF calc_downstream
                      THEN DMul(occurrence_prob,
                                BranchFailures(frs, cms, i_rates + 1, connected_targets))
                      ELSE DZero)
      IN  DAdd(term, SumScenarios(frs, cms, i_rates, mask, scenarios, k + 1))

BranchFailures(frs, cms, i_rates, src_connected_mask) ==
    SumScenarios(frs, cms, i_rates, src_connected_mask, Product(src_connected_mask, 1), 1)

\* the failure probability of line 122, before the log transform
FailureProbability(sensor_types, computer_types, conns, actuator_types, act_conns) ==
    LET frs == FailureRates(sensor_types, computer_types, actuator_types)
        cms == ConnMatrices(frs, ObjConns(conns, actuator_types, act_conns))
    IN  BranchFailures(frs, cms, 0, AllOnes(Len(frs[1])))

\* lines 55-70: the exception raised while the rate arrays and the matrices
\* are built, "" when there is none
CallError(sensor_types, computer_types, conns, actuator_types, act_conns) ==
    IF ~KnownTypes(failure_rate, "S", sensor_types) THEN "KeyError"
    ELSE IF ~KnownTypes(failure_rate, "C", computer_types) THEN "KeyError"
    ELSE IF actuator_types # None /\ ~KnownTypes(failure_rate, "A", actuator_types.val)
         THEN "KeyError"
    ELSE IF ~EdgesInBounds(FailureRates(sensor_types, computer_types, actuator_types),
                           <<conns>>)
         THEN "IndexError"
    ELSE IF actuator_types # None /\ act_conns = None THEN "TypeError"
    ELSE IF ~EdgesInBounds(FailureRates(sensor_types, computer_types, actuator_types),
                           ObjConns(conns, actuator_types, act_conns))
         THEN "IndexError"
    ELSE ""

CalcFailureRate(sensor_types, computer_types, conns, actuator_types, act_conns) ==
    LET err == CallError(sensor_types, computer_types, conns, actuator_types, act_conns)
    IN  IF err # "" THEN Raise(err)
        ELSE Return(Log10(FailureProbability(sensor_types, computer_types, conns,
                                             actuator_types, act_conns)))

\* ------------------------------------------------- binary64 arithmetic
\* The program computes in IEEE-754 binary64 (Python float, numpy float64).
\* A natural number is a sequence of limbs of LimbBits bits, least significant
\* first, with no leading zero limb; zero is the empty sequence.
LimbBits == 14
Precision == 53

RECURSIVE BNorm(_)
BNorm(x) ==
    IF x = <<>> THEN <<>>
    ELSE IF x[Len(x)] = 0 THEN BNorm(SubSeq(x, 1, Len(x) - 1))
    ELSE x

\* x + y, from limb i on with the carry of the limbs below
RECURSIVE BAdd(_, _, _, _)
BAdd(x, y, i, carry) ==
    IF i > Len(x) /\ i > Len(y)
    THEN (IF carry = 0 THEN <<>> ELSE <<carry>>)
    ELSE LET s == (IF i <= Len(x) THEN x[i] ELSE 0)
                  + (IF i <= Len(y) THEN y[i] ELSE 0) + carry
         IN  <<s % 2 ^ LimbBits>> \o BAdd(x, y, i + 1, s \div 2 ^ LimbBits)

\* x - y for x >= y, from limb i on; the result may have leading zero limbs
RECURSIVE BSub(_, _, _, _)
BSub(x, y, i, borrow) ==
    IF i > Len(x) THEN <<>>
    ELSE LET d == x[i] - (IF i <= Len(y) THEN y[i] ELSE 0) - borrow
         IN  IF d < 0 THEN <<d + 2 ^ LimbBits>> \o BSub(x, y, i + 1, 1)
             ELSE <<d>> \o BSub(x, y, i + 1, 0)

\* x * c for 0 <= c < 2^LimbBits, from limb i on
RECURSIVE BMulSmall(_, _, _, _)
BMulSmall(x, c, i, carry) ==
    IF i > Len(x) THEN (IF carry = 0 THEN <<>> ELSE <<carry>>)
    ELSE LET p == x[i] * c + carry
         IN  <<p % 2 ^ LimbBits>> \o BMulSmall(x, c, i + 1, p \div 2 ^ LimbBits)

\* x * 2^n
BShl(x, n) ==
    IF x = <<>> THEN <<>>
    ELSE [i \in 1 .. n \div LimbBits |-> 0] \o BMulSmall(x, 2 ^ (n % LimbBits), 1, 0)

\* x * y for x, y > 0: the limbs i, i + 1, ... of y
RECURSIVE BMul(_, _, _)
BMul(x, y, i) ==
    IF i > Len(y) THEN <<>>
    ELSE BAdd(BShl(BMulSmall(x, y[i], 1, 0), LimbBits * (i - 1)), BMul(x, y, i + 1), 1, 0)

\* quotient and remainder of x by d, 0 < d < 2^17, from limb i down with the
\* remainder r of the limbs above; the quotient may have leading zero limbs
RECURSIVE BDivSmall(_, _, _, _)
BDivSmall(x, d, i, r) ==
    IF i = 0 THEN [q |-> <<>>, r |-> r]
    ELSE LET cur  == r * 2 ^ LimbBits + x[i]
             rest == BDivSmall(x, d, i - 1, cur % d)
         IN  [q |-> rest.q \o <<cur \div d>>, r |-> rest.r]

\* floor(x / 2^n)
BShr(x, n) ==
    IF n \div LimbBits >= Len(x) THEN <<>>
    ELSE LET high == SubSeq(x, n \div LimbBits + 1, Len(x))
         IN  BNorm(BDivSmall(high, 2 ^ (n % LimbBits), Len(high), 0).q)

RECURSIVE BitsOf(_)
BitsOf(n) == IF n = 0 THEN 0 ELSE 1 + BitsOf(n \div 2)

BBitLen(x) == IF x = <<>> THEN 0 ELSE LimbBits * (Len(x) - 1) + BitsOf(x[Len(x)])

\* A binary64 number m * 2^e with m of exactly Precision bits, or zero (m empty).
\* All values the program meets are positive and far from the subnormal range.
FZero == [m |-> <<>>, e |-> 0]

\* the binary64 nearest to M * 2^e, ties to even
FRound(M, e) ==
    LET len == BBitLen(M)
        k   == len - Precision
    IN  IF len = 0 THEN FZero
        ELSE IF k <= 0 THEN [m |-> BShl(M, 0 - k), e |-> e + k]
        ELSE LET plus_half == BAdd(M, BShl(<<1>>, k - 1), 1, 0)
                 half_up   == BShr(plus_half, k)
                 tie       == BShl(half_up, k) = plus_half
                 q         == IF tie /\ half_up[1] % 2 = 1
                              THEN BNorm(BSub(half_up, <<1>>, 1, 0)) ELSE half_up
             IN  IF BBitLen(q) > Precision
                 THEN [m |-> BShr(q, 1), e |-> e + k + 1]
                 ELSE [m |-> q, e |-> e + k]

FOne == FRound(<<1>>, 0)

FMul(a, b) ==
    IF a.m = <<>> \/ b.m = <<>> THEN FZero
    ELSE FRound(BMul(a.m, b.m, 1), a.e + b.e)

FAdd(a, b) ==
    IF a.m = <<>> THEN b
    ELSE IF b.m = <<>> THEN a
    ELSE LET e == IF a.e < b.e THEN a.e ELSE b.e
         IN  FRound(BAdd(BShl(a.m, a.e - e), BShl(b.m, b.e - e), 1, 0), e)

\* a - b for a >= b > 0
FSub(a, b) ==
    LET e == IF a.e < b.e THEN a.e ELSE b.e
    IN  FRound(BNorm(BSub(BShl(a.m, a.e - e), BShl(b.m, b.e - e), 1, 0)), e)

\* the float literal of the rate n * 10^-5, as Python reads it: the binary64
\* nearest to it. The quotient is taken with RateScale binary places and one
\* more place that tells whether the division left a remainder.
RateScale == 84
FRate(n) ==
    LET num == BShl(<<n>>, RateScale)
        d   == BDivSmall(num, Base, Len(num), 0)
    IN  IF n = 0 THEN FZero
        ELSE FRound(BAdd(BShl(BNorm(d.q), 1), IF d.r = 0 THEN <<>> ELSE <<1>>, 1, 0),
                    0 - RateScale - 1)

\* lines 89-95 in binary64 as they would be with the product of line 93 taken
\* over the whole array, not over occurrence_prob[src_connected_mask]
RECURSIVE OccurrenceProbFloat_AllUnits(_, _, _, _, _)
OccurrenceProbFloat_AllUnits(rates, ok_sources, src_connected_mask, i, prob) ==
    IF i > Len(rates) THEN prob
    ELSE OccurrenceProbFloat_AllUnits(rates, ok_sources, src_connected_mask, i + 1,
             FMul(prob, IF ok_sources[i] THEN FSub(FOne, FRate(rates[i]))
                        ELSE FRate(rates[i])))

\* lines 89-95 in binary64: prob = 1., then prob *= partial_prob for the
\* sources of the connected mask, in index order
RECURSIVE OccurrenceProbFloat(_, _, _, _, _)
OccurrenceProbFloat(rates, ok_sources, src_connected_mask, i, prob) ==
    IF i > Len(rates) THEN prob
    ELSE IF ~src_connected_mask[i]
    THEN OccurrenceProbFloat(rates, ok_sources, src_connected_mask, i + 1, prob)
    ELSE OccurrenceProbFloat(rates, ok_sources, src_connected_mask, i + 1,
             FMul(prob, IF ok_sources[i] THEN FSub(FOne, FRate(rates[i]))
                        ELSE FRate(rates[i])))

\* lines 110-112 in binary64
RECURSIVE AllTgtFailProbFloat(_, _, _, _)
AllTgtFailProbFloat(tgt_rates, connected_targets, j, all_tgt_fail_prob) ==
    IF j > Len(tgt_rates) THEN all_tgt_fail_prob
    ELSE AllTgtFailProbFloat(tgt_rates, connected_targets, j + 1,
             IF connected_targets[j] THEN FMul(all_tgt_fail_prob, FRate(tgt_rates[j]))
             ELSE all_tgt_fail_prob)

RECURSIVE BranchFailuresFloat(_, _, _, _)
RECURSIVE SumScenariosFloat(_, _, _, _, _, _, _)

\* lines 81-118 in binary64: the scenarios k .. Len(scenarios) add their terms
\* to total_rate one after the other
SumScenariosFloat(frs, cms, i_rates, mask, scenarios, k, total_rate) ==
    IF k > Len(scenarios) THEN total_rate
    ELSE
      LET ok_sources        == scenarios[k]
          rates             == frs[i_rates + 1]
          tgt_rates         == frs[i_rates + 2]
          conn_mat          == cms[i_rates + 1]
          calc_downstream   == i_rates < Len(cms) - 1
          occurrence_prob   == OccurrenceProbFloat(rates, ok_sources, mask, 1, FOne)
          connected_targets == ConnectedTargets(conn_mat, ok_sources, Len(tgt_rates))
          with_targets ==
              FAdd(total_rate,
                   FMul(occurrence_prob,
                        AllTgtFailProbFloat(tgt_rates, connected_targets, 1, FOne)))
          after ==
            IF SkipScenario(i_rates, ok_sources) THEN total_rate
            ELSE IF ~AnyTrue(connected_targets) THEN FAdd(total_rate, occurrence_prob)
            ELSE IF calc_downstream
            THEN FAdd(with_targets,
                      FMul(occurrence_prob,
                           BranchFailuresFloat(frs, cms, i_rates + 1, connected_targets)))
            ELSE with_targets
      IN  SumScenariosFloat(frs, cms, i_rates, mask, scenarios, k + 1, after)

\* _branch_failures, lines 73-120, in binary64
BranchFailuresFloat(frs, cms, i_rates, src_connected_mask) ==
    SumScenariosFloat(frs, cms, i_rates, src_connected_mask,
                      Product(src_connected_mask, 1), 1, FZero)

\* np.log10 of a binary64 p >= 0: -inf at 0, and of the sign of p - 1
Log10Float(p) ==
    [finite   |-> p.m # <<>>,
     positive |-> p.m # <<>> /\ (p.e > FOne.e \/ (p.e = FOne.e /\ p.m # FOne.m)),
     arg      |-> p]

\* calc_failure_rate, lines 43-123, with the arithmetic of the program
CalcFailureRateFloat(sensor_types, computer_types, conns, actuator_types, act_conns) ==
    LET err == CallError(sensor_types, computer_types, conns, actuator_types, act_conns)
        frs == FailureRates(sensor_types, computer_types, actuator_types)
        cms == ConnMatrices(frs, ObjConns(conns, actuator_types, act_conns))
    IN  IF err # "" THEN Raise(err)
        ELSE Return(Log10Float(BranchFailuresFloat(frs, cms, 0, AllOnes(Len(frs[1])))))

\* --------------------------------------------------------------- inputs
TypeNames == <<"A", "B", "C">>
TypeNamesSet == {TypeNames[i] : i \in 1 .. Len(TypeNames)}
Labels    == {TypeNames[i] : i \in 1 .. NumTypes}
BadLabels == {"X"}

TypeLists(labels, n) == UNION {[1 .. k -> labels] : k \in 0 .. n}

\* the index pairs of an n_src x n_tgt stage pair, row by row
Grid(n_src, n_tgt) ==
    [k \in 1 .. n_src * n_tgt |-> <<(k - 1) \div n_tgt, (k - 1) % n_tgt>>]

\* one edge list per set of edges between existing units
EdgeLists(n_src, n_tgt) ==
    LET grid == Grid(n_src, n_tgt)
    IN  {SelectSeq(grid, LAMBDA e : e \in S) : S \in SUBSET {grid[k] : k \in 1 .. Len(grid)}}

\* edge lists that also hold negative and too large indices
AnyIndex == (0 - MaxEdges) .. MaxEdges
AnyEdgeLists == UNION {[1 .. k -> AnyIndex \X AnyIndex] : k \in 1 .. MaxEdges}

OptActuatorLists(labels) == {None} \cup {Some(t) : t \in TypeLists(labels, MaxActuators)}

Input(st, ct, cn, at, ac) ==
    [sensor_types |-> st, computer_types |-> ct, conns |-> cn,
     actuator_types |-> at, act_conns |-> ac]

\* the computer-to-actuator edge lists that go with an actuator list
OptEdgeLists(n_src, at) ==
    IF at = None THEN {None} ELSE {Some(e) : e \in EdgeLists(n_src, Len(at.val))}

\* topologies with types of the given labels and edges between existing units
Topologies(labels) ==
    UNION {UNION {UNION {
        {Input(st, ct, cn, at, ac) :
            cn \in EdgeLists(Len(st), Len(ct)), ac \in OptEdgeLists(Len(ct), at)} :
        at \in OptActuatorLists(labels)} :
        ct \in TypeLists(labels, MaxComputers)} :
        st \in TypeLists(labels, MaxSensors)}

\* type lists with a label the catalog does not have
BadTypeInputs ==
    {Input(st, ct, <<>>, at, IF at = None THEN None ELSE Some(<<>>)) :
        st \in TypeLists(Labels \cup BadLabels, MaxSensors),
        ct \in TypeLists(Labels \cup BadLabels, MaxComputers),
        at \in OptActuatorLists(Labels \cup BadLabels)}
    \ Topologies(Labels)

\* edge lists with any index, on the first transition or on the second
SameType(n) == [i \in 1 .. n |-> "A"]

BadEdgeInputs ==
    {Input(SameType(ns), SameType(nc), cn, None, None) :
        ns \in 0 .. MaxSensors, nc \in 0 .. MaxComputers, cn \in AnyEdgeLists}
    \cup
    {Input(<<"A">>, SameType(nc), Grid(1, nc), Some(SameType(na)), Some(ac)) :
        nc \in 0 .. MaxComputers, na \in 0 .. MaxActuators, ac \in AnyEdgeLists}

\* ------------------------------------------------------------ operations
Idle == [op |-> "none"]

Frame(i_rates, mask) ==
    [i_rates            |-> i_rates,
     src_connected_mask |-> mask,
     todo               |-> Product(mask, 1),
     total_rate         |-> DZero,
     occurrence_prob    |-> DZero]

Top == stack[Len(stack)]

SetTop(f) == [stack EXCEPT ![Len(stack)] = f]

Init ==
    /\ mass = GNC_mass
    /\ failure_rate = GNC_failure_rate
    /\ pc = "idle"
    /\ call = Idle
    /\ failure_rates = <<>>
    /\ conn_matrices = <<>>
    /\ stack = <<>>
    /\ retval = None
    /\ output_file = None

\* calc_mass as it would be if it took the sensor masses out of the table
\* (dict.pop in place of the lookup of line 37)
DoCalcMass_PopsTable(in) ==
    /\ pc = "idle"
    /\ call' = [op |-> "calc_mass", sensor_types |-> in.sensor_types,
                computer_types |-> in.computer_types,
                actuator_types |-> in.actuator_types]
    /\ retval' = CalcMass(in.sensor_types, in.computer_types, in.actuator_types)
    /\ pc' = IF retval'.tag = "raise" THEN "raised" ELSE "returned"
    /\ mass' = [mass EXCEPT !.S =
                  [t \in DOMAIN mass.S \ {in.sensor_types[i] : i \in 1 .. Len(in.sensor_types)}
                      |-> mass.S[t]]]
    /\ UNCHANGED <<failure_rate, failure_rates, conn_matrices, stack, output_file>>

\* calc_mass, lines 34-41
DoCalcMass(in) ==
    /\ pc = "idle"
    /\ call' = [op |-> "calc_mass", sensor_types |-> in.sensor_types,
                computer_types |-> in.computer_types,
                actuator_types |-> in.actuator_types]
    /\ retval' = CalcMass(in.sensor_types, in.computer_types, in.actuator_types)
    /\ pc' = IF retval'.tag = "raise" THEN "raised" ELSE "returned"
    /\ UNCHANGED <<mass, failure_rate, failure_rates, conn_matrices, stack, output_file>>

\* calc_failure_rate up to the root call of _branch_failures, lines 55-70, 122
BeginCalcFailureRate(in) ==
    /\ pc = "idle"
    /\ call' = [op |-> "calc_failure_rate"] @@ in
    /\ LET err == CallError(in.sensor_types, in.computer_types, in.conns,
                            in.actuator_types, in.act_conns)
           frs == FailureRates(in.sensor_types, in.computer_types, in.actuator_types)
       IN  IF err # ""
           THEN /\ pc' = "raised"
                /\ retval' = Raise(err)
                /\ UNCHANGED <<failure_rates, conn_matrices, stack>>
           ELSE /\ pc' = "branch"
                /\ failure_rates' = frs
                /\ conn_matrices' =
                       ConnMatrices(frs, ObjConns(in.conns, in.actuator_types, in.act_conns))
                /\ stack' = <<Frame(0, AllOnes(Len(frs[1])))>>
                /\ UNCHANGED retval
    /\ UNCHANGED <<mass, failure_rate, output_file>>

\* line 74 as it would be with the bound one too low
CalcDownstream_OffByOne == Top.i_rates < Len(conn_matrices) - 2

\* the locals of the running activation of _branch_failures, lines 74-76, 89-101
Rates           == failure_rates[Top.i_rates + 1]
TgtRates        == failure_rates[Top.i_rates + 2]
ConnMat         == conn_matrices[Top.i_rates + 1]
CalcDownstream  == Top.i_rates < Len(conn_matrices) - 1
OkSources       == Head(Top.todo)
CurOccurrence   == OccurrenceProb(Rates, OkSources, Top.src_connected_mask)
CurTargets      == ConnectedTargets(ConnMat, OkSources, Len(TgtRates))
InLoop          == pc = "branch" /\ Top.todo # <<>>

\* lines 90-91 as they would be without .copy(): the complement is written
\* into the rate array of the stage itself
RatesAfterScenario_NoCopy(rates, ok_sources) ==
    SubSeq([i \in 1 .. Len(rates) |-> IF ok_sources[i] THEN Base - rates[i] ELSE rates[i]],
           1, Len(rates))

\* lines 90-91: occurrence_prob is a copy, so the stage's rate array is as it was
RatesAfterScenario(rates, ok_sources) == rates

\* failure_rates once the scenario at hand has computed its occurrence probability
ScenarioRates ==
    [failure_rates EXCEPT ![Top.i_rates + 1] = RatesAfterScenario(Rates, OkSources)]

\* lines 85-86
ScenarioSkip ==
    /\ InLoop
    /\ SkipScenario(Top.i_rates, OkSources)
    /\ stack' = SetTop([Top EXCEPT !.todo = Tail(@)])
    /\ UNCHANGED <<mass, failure_rate, pc, call, failure_rates, conn_matrices, retval, output_file>>

\* lines 104-107
ScenarioNoTargets ==
    /\ InLoop
    /\ ~SkipScenario(Top.i_rates, OkSources)
    /\ ~AnyTrue(CurTargets)
    /\ stack' = SetTop([Top EXCEPT !.todo = Tail(@),
                                   !.total_rate = DAdd(@, CurOccurrence)])
    /\ failure_rates' = ScenarioRates
    /\ UNCHANGED <<mass, failure_rate, pc, call, conn_matrices, retval, output_file>>

\* lines 110-113, last transition: no recursion
ScenarioTargetsFail ==
    /\ InLoop
    /\ ~SkipScenario(Top.i_rates, OkSources)
    /\ AnyTrue(CurTargets)
    /\ ~CalcDownstream
    /\ stack' = SetTop([Top EXCEPT
                          !.todo = Tail(@),
                          !.total_rate = DAdd(@, DMul(CurOccurrence,
                                                      AllTgtFailProb(TgtRates, CurTargets)))])
    /\ failure_rates' = ScenarioRates
    /\ UNCHANGED <<mass, failure_rate, pc, call, conn_matrices, retval, output_file>>

\* lines 110-118 as they would be with the recursive call of line 117 made
\* with i_rates in place of i_rates+1
ScenarioRecurse_SameIndex ==
    /\ InLoop
    /\ ~SkipScenario(Top.i_rates, OkSources)
    /\ AnyTrue(CurTargets)
    /\ CalcDownstream
    /\ stack' = Append(SetTop([Top EXCEPT
                                 !.occurrence_prob = CurOccurrence,
                                 !.total_rate = DAdd(@, DMul(CurOccurrence,
                                                    AllTgtFailProb(TgtRates, CurTargets)))]),
                       Frame(Top.i_rates, CurTargets))
    /\ failure_rates' = ScenarioRates
    /\ UNCHANGED <<mass, failure_rate, pc, call, conn_matrices, retval, output_file>>

\* lines 110-118: the all-targets-fail term, then the recursive call
ScenarioRecurse ==
    /\ InLoop
    /\ ~SkipScenario(Top.i_rates, OkSources)
    /\ AnyTrue(CurTargets)
    /\ CalcDownstream
    /\ stack' = Append(SetTop([Top EXCEPT
                                 !.occurrence_prob = CurOccurrence,
                                 !.total_rate = DAdd(@, DMul(CurOccurrence,
                                                    AllTgtFailProb(TgtRates, CurTargets)))]),
                       Frame(Top.i_rates + 1, CurTargets))
    /\ failure_rates' = ScenarioRates
    /\ UNCHANGED <<mass, failure_rate, pc, call, conn_matrices, retval, output_file>>

\* line 120 in a recursive call, and the rest of line 117 in its caller
BranchReturn ==
    /\ pc = "branch"
    /\ Len(stack) > 1
    /\ Top.todo = <<>>
    /\ LET caller == stack[Len(stack) - 1]
       IN  stack' = [k \in 1 .. Len(stack) - 1 |->
                        IF k < Len(stack) - 1 THEN stack[k]
                        ELSE [caller EXCEPT
                                !.todo = Tail(@),
                                !.total_rate = DAdd(@, DMul(caller.occurrence_prob,
                                                            Top.total_rate))]]
    /\ UNCHANGED <<mass, failure_rate, pc, call, failure_rates, conn_matrices, retval, output_file>>

\* line 120 in the root call, and line 123
FinishCalcFailureRate ==
    /\ pc = "branch"
    /\ Len(stack) = 1
    /\ Top.todo = <<>>
    /\ retval' = Return(Log10(Top.total_rate))
    /\ pc' = "returned"
    /\ stack' = <<>>
    /\ UNCHANGED <<mass, failure_rate, call, failure_rates, conn_matrices, output_file>>

\* the caller takes the value or the exception; the locals are gone
ReturnToCaller ==
    /\ pc \in {"returned", "raised"}
    /\ call.op \in {"calc_mass", "calc_failure_rate"}
    /\ pc' = "idle"
    /\ call' = Idle
    /\ failure_rates' = <<>>
    /\ conn_matrices' = <<>>
    /\ stack' = <<>>
    /\ retval' = None
    /\ UNCHANGED <<mass, failure_rate, output_file>>

CallCalcMass ==
    /\ pc = "idle"
    /\ \E st \in TypeLists(Labels \cup BadLabels, MaxSensors),
          ct \in TypeLists(Labels \cup BadLabels, MaxComputers),
          at \in OptActuatorLists(Labels \cup BadLabels) :
            DoCalcMass(Input(st, ct, <<>>, at, None))

CallCalcFailureRate ==
    /\ pc = "idle"
    /\ \E in \in Topologies(Labels) \cup BadTypeInputs \cup BadEdgeInputs :
            BeginCalcFailureRate(in)

Next ==
    \/ CallCalcMass
    \/ CallCalcFailureRate
    \/ ScenarioSkip
    \/ ScenarioNoTargets
    \/ ScenarioTargetsFail
    \/ ScenarioRecurse
    \/ BranchReturn
    \/ FinishCalcFailureRate
    \/ ReturnToCaller

Spec == Init /\ [][Next]_vars

\* the steps of the running _branch_failures that evaluate a scenario, lines 89-118
EvaluateScenario ==
    \/ ScenarioNoTargets
    \/ ScenarioTargetsFail
    \/ ScenarioRecurse

\* the steps that evaluate none: the skip of lines 85-86 and the returns of
\* lines 120 and 123
SkipOrReturn ==
    \/ ScenarioSkip
    \/ BranchReturn
    \/ FinishCalcFailureRate

\* a scenario is at hand and is not skipped: one of the steps of
\* EvaluateScenario can be taken, whatever the connected targets are
CanEvaluateScenario == InLoop /\ ~SkipScenario(Top.i_rates, OkSources)

\* the interpreter runs a started call on: a step that can be taken is taken.
\* Weak fairness of both groups of steps; for EvaluateScenario it is written
\* out, with CanEvaluateScenario for ENABLED <<EvaluateScenario>>_vars
SpecLive ==
    /\ Spec
    /\ WF_vars(SkipOrReturn)
    /\ ([]<>~CanEvaluateScenario \/ []<><<EvaluateScenario>>_vars)

\* ------------------------------------- the calculator in binary64 arithmetic
MaxFloatSensors == 4

\* up to MaxFloatSensors sensors with no computer, and topologies of one
\* sensor, up to MaxComputers computers and up to MaxActuators actuators
FloatTopologies ==
    {Input(st, <<>>, <<>>, None, None) : st \in TypeLists(Labels, MaxFloatSensors)}
    \cup
    UNION {UNION {
        {Input(<<"A">>, ct, cn, Some(at), Some(ac)) :
            cn \in EdgeLists(1, Len(ct)), ac \in EdgeLists(Len(ct), Len(at))} :
        at \in TypeLists(Labels, MaxActuators)} :
        ct \in TypeLists(Labels, MaxComputers)}

\* a whole call of calc_failure_rate, lines 43-123
CallCalcFailureRateFloat ==
    /\ pc = "idle"
    /\ \E in \in FloatTopologies :
          /\ call' = [op |-> "calc_failure_rate"] @@ in
          /\ retval' = CalcFailureRateFloat(in.sensor_types, in.computer_types, in.conns,
                                            in.actuator_types, in.act_conns)
          /\ pc' = IF retval'.tag = "raise" THEN "raised" ELSE "returned"
    /\ UNCHANGED <<mass, failure_rate, failure_rates, conn_matrices, stack, output_file>>

NextFloat ==
    \/ CallCalcFailureRateFloat
    \/ ReturnToCaller

SpecFloat == Init /\ [][NextFloat]_vars


\* the step-wise run and the function agree
StepsAgree ==
    (pc = "returned" /\ call.op = "calc_failure_rate") =>
        retval = CalcFailureRate(call.sensor_types, call.computer_types, call.conns,
                                 call.actuator_types, call.act_conns)

\* ------------------------------------------------------------ evaluators
RECURSIVE Concat(_)
Concat(ss) == IF ss = <<>> THEN <<>> ELSE Head(ss) \o Concat(Tail(ss))

Fix(f, n) == SubSeq(f, 1, n)

\* the instances of the components of one name, in document order
InstancesOf(components, ref) ==
    Concat(Fix([c \in 1 .. Len(components) |->
                  IF components[c].ref = ref THEN components[c].instances ELSE <<>>],
               Len(components)))

\* JSON _get_element_types: the first value of the first attribute of every
\* instance, asserted to be A, B or C
GetElementTypes(data, element_ref) ==
    LET inst  == InstancesOf(data.architecture.system.components, element_ref)
        types == Fix([k \in 1 .. Len(inst) |-> inst[k].type], Len(inst))
    IN  IF \E k \in 1 .. Len(types) : types[k] \notin {"A", "B", "C"}
        THEN Raise("AssertionError")
        ELSE Return(types)

\* the (source index, target id) pairs of the output ports of one instance
InstanceConnections(instance) ==
    Concat(Fix([q \in 1 .. Len(instance.outputPorts) |->
                  Fix([k \in 1 .. Len(instance.outputPorts[q].targetIds) |->
                         <<instance.index, instance.outputPorts[q].targetIds[k]>>],
                      Len(instance.outputPorts[q].targetIds))],
               Len(instance.outputPorts)))

\* the (port id, instance index) pairs of the input ports of one instance
InstanceTargets(instance) ==
    Fix([q \in 1 .. Len(instance.inputPorts) |->
           <<instance.inputPorts[q].id, instance.index>>],
        Len(instance.inputPorts))

\* the value a dict holds for a key after the pairs were stored in order
Lookup(pairs, key) ==
    LET last == CHOOSE k \in 1 .. Len(pairs) :
                    /\ pairs[k][1] = key
                    /\ \A m \in k + 1 .. Len(pairs) : pairs[m][1] # key
    IN  pairs[last][2]

HasKey(pairs, key) == \E k \in 1 .. Len(pairs) : pairs[k][1] = key

\* _get_element_connections as it would be if an unknown target id were
\* skipped instead of raised
GetElementConnections_DropsUnresolved(components, src_ref, tgt_ref) ==
    LET src == InstancesOf(components, src_ref)
        tgt == IF src_ref = tgt_ref THEN <<>> ELSE InstancesOf(components, tgt_ref)
        connections ==
            Concat(Fix([k \in 1 .. Len(src) |-> InstanceConnections(src[k])], Len(src)))
        conn_target_idx_map ==
            Concat(Fix([k \in 1 .. Len(tgt) |-> InstanceTargets(tgt[k])], Len(tgt)))
        resolved ==
            SelectSeq(connections, LAMBDA c : HasKey(conn_target_idx_map, c[2]))
    IN  Return(Fix([k \in 1 .. Len(resolved) |->
                      <<resolved[k][1], Lookup(conn_target_idx_map, resolved[k][2])>>],
                   Len(resolved)))

\* JSON and API _get_element_connections
GetElementConnections(components, src_ref, tgt_ref) ==
    LET src == InstancesOf(components, src_ref)
        tgt == IF src_ref = tgt_ref THEN <<>> ELSE InstancesOf(components, tgt_ref)
        connections ==
            Concat(Fix([k \in 1 .. Len(src) |-> InstanceConnections(src[k])], Len(src)))
        conn_target_idx_map ==
            Concat(Fix([k \in 1 .. Len(tgt) |-> InstanceTargets(tgt[k])], Len(tgt)))
    IN  IF \E k \in 1 .. Len(connections) : ~HasKey(conn_target_idx_map, connections[k][2])
        THEN Raise("RuntimeError")
        ELSE Return(Fix([k \in 1 .. Len(connections) |->
                           <<connections[k][1],
                             Lookup(conn_target_idx_map, connections[k][2])>>],
                        Len(connections)))

\* what an evaluator call did: its outcome and the file it wrote, if any
Done(result, written) == [result |-> result, written |-> written]

\* lines 41-47: the first exception of the loop over data['outputs'], "" if none
RECURSIVE OutputsError(_, _, _, _)
OutputsError(outputs, k, m, f) ==
    IF k > Len(outputs) THEN ""
    ELSE IF outputs[k].ref = "mass" /\ m.tag = "raise" THEN m.exc
    ELSE IF outputs[k].ref = "failure-rate" /\ f.tag = "raise" THEN f.exc
    ELSE OutputsError(outputs, k + 1, m, f)

\* lines 41-47 as they would be with the units set on both metrics
SetOutputs_TagsBoth(outputs, m, f) ==
    Fix([k \in 1 .. Len(outputs) |->
           IF outputs[k].ref = "mass"
           THEN [outputs[k] EXCEPT !.value = Some(m.value), !.units = Some("kg")]
           ELSE IF outputs[k].ref = "failure-rate"
           THEN [outputs[k] EXCEPT !.value = Some(f.value), !.units = Some("kg")]
           ELSE outputs[k]],
        Len(outputs))

SetOutputs(outputs, m, f) ==
    Fix([k \in 1 .. Len(outputs) |->
           IF outputs[k].ref = "mass"
           THEN [outputs[k] EXCEPT !.value = Some(m.value), !.units = Some("kg")]
           ELSE IF outputs[k].ref = "failure-rate"
           THEN [outputs[k] EXCEPT !.value = Some(f.value)]
           ELSE outputs[k]],
        Len(outputs))

\* the extraction as it would be without the check of line 31: an empty
\* actuator list is passed on as a list, and the second extraction always runs
Extracted_KeepsEmpty(st, ct, at, sc, ca) ==
    IF st.tag = "raise" THEN st
    ELSE IF ct.tag = "raise" THEN ct
    ELSE IF at.tag = "raise" THEN at
    ELSE IF sc.tag = "raise" THEN sc
    ELSE IF ca.tag = "raise" THEN ca
    ELSE Return(Input(st.value, ct.value, sc.value, Some(at.value), Some(ca.value)))

\* the evaluator's arguments for GNCCalculator, or the exception of the extraction
Extracted(st, ct, at, sc, ca) ==
    IF st.tag = "raise" THEN st
    ELSE IF ct.tag = "raise" THEN ct
    ELSE IF at.tag = "raise" THEN at
    ELSE IF sc.tag = "raise" THEN sc
    ELSE IF Len(at.value) # 0 /\ ca.tag = "raise" THEN ca
    ELSE Return(Input(st.value, ct.value, sc.value,
                      IF Len(at.value) = 0 THEN None ELSE Some(at.value),
                      IF Len(at.value) = 0 THEN None ELSE Some(ca.value)))

\* gnc_json_evaluate as it would be with the write in a finally clause: the
\* data is written whether or not the loop over the outputs raised
JsonEvaluate_AlwaysWrites(data) ==
    LET comps == data.architecture.system.components
        in == Extracted(GetElementTypes(data, "sensor"),
                        GetElementTypes(data, "computer"),
                        GetElementTypes(data, "actuator"),
                        GetElementConnections(comps, "sensor", "computer"),
                        GetElementConnections(comps, "computer", "actuator"))
    IN  IF in.tag = "raise" THEN Done(in, None)
        ELSE
          LET a   == in.value
              m   == CalcMass(a.sensor_types, a.computer_types, a.actuator_types)
              f   == CalcFailureRate(a.sensor_types, a.computer_types, a.conns,
                                     a.actuator_types, a.act_conns)
              err == OutputsError(data.outputs, 1, m, f)
          IN  IF err # "" THEN Done(Raise(err), Some(data))
              ELSE Done(Return(None),
                        Some([data EXCEPT !.outputs = SetOutputs(data.outputs, m, f)]))

\* gnc_json_evaluate, from the loaded data to the written file
JsonEvaluate(data) ==
    LET comps == data.architecture.system.components
        in == Extracted(GetElementTypes(data, "sensor"),
                        GetElementTypes(data, "computer"),
                        GetElementTypes(data, "actuator"),
                        GetElementConnections(comps, "sensor", "computer"),
                        GetElementConnections(comps, "computer", "actuator"))
    IN  IF in.tag = "raise" THEN Done(in, None)
        ELSE
          LET a   == in.value
              m   == CalcMass(a.sensor_types, a.computer_types, a.actuator_types)
              f   == CalcFailureRate(a.sensor_types, a.computer_types, a.conns,
                                     a.actuator_types, a.act_conns)
              err == OutputsError(data.outputs, 1, m, f)
          IN  IF err # "" THEN Done(Raise(err), None)
              ELSE Done(Return(None),
                        Some([data EXCEPT !.outputs = SetOutputs(data.outputs, m, f)]))

\* XML _get_element_types
XmlGetElementTypes(tree, stage) ==
    LET els   == tree.gnc[stage]
        types == Fix([k \in 1 .. Len(els) |-> els[k].type], Len(els))
    IN  IF \E k \in 1 .. Len(types) : types[k] \notin {"A", "B", "C"}
        THEN Raise("AssertionError")
        ELSE Return(types)

\* XML _get_element_connections for the sources k .. Len(src): the first
\* exception in document order, else the (index, index) pairs
RECURSIVE XmlConnectionsFrom(_, _, _)
XmlConnectionsFrom(src, tgt_uid_map, k) ==
    IF k > Len(src) THEN Return(<<>>)
    ELSE IF src[k].targets = None THEN Raise("AttributeError")
    ELSE
      LET target_uids == src[k].targets.val
      IN  IF \E q \in 1 .. Len(target_uids) : ~HasKey(tgt_uid_map, target_uids[q])
          THEN Raise("KeyError")
          ELSE
            LET rest == XmlConnectionsFrom(src, tgt_uid_map, k + 1)
            IN  IF rest.tag = "raise" THEN rest
                ELSE Return(Fix([q \in 1 .. Len(target_uids) |->
                                   <<k - 1, Lookup(tgt_uid_map, target_uids[q])>>],
                                Len(target_uids)) \o rest.value)

XmlGetElementConnections(tree, src_stage, tgt_stage) ==
    LET tgt == tree.gnc[tgt_stage]
        tgt_uid_map == Fix([k \in 1 .. Len(tgt) |-> <<tgt[k].uID, k - 1>>], Len(tgt))
    IN  XmlConnectionsFrom(tree.gnc[src_stage], tgt_uid_map, 1)

\* str() of a metric, as the text of an element
Str(v) == [str |-> v]

\* gnc_xml_nfe_evaluate, from the parsed tree to the written file
XmlEvaluate(tree) ==
    LET in == Extracted(XmlGetElementTypes(tree, "sensors"),
                        XmlGetElementTypes(tree, "computers"),
                        XmlGetElementTypes(tree, "actuators"),
                        XmlGetElementConnections(tree, "sensors", "computers"),
                        XmlGetElementConnections(tree, "computers", "actuators"))
    IN  IF in.tag = "raise" THEN Done(in, None)
        ELSE
          LET a == in.value
              m == CalcMass(a.sensor_types, a.computer_types, a.actuator_types)
              f == CalcFailureRate(a.sensor_types, a.computer_types, a.conns,
                                   a.actuator_types, a.act_conns)
          IN  IF m.tag = "raise" THEN Done(m, None)
              ELSE IF tree.gnc.performance.mass = None THEN Done(Raise("IndexError"), None)
              ELSE IF f.tag = "raise" THEN Done(f, None)
              ELSE IF tree.gnc.performance.failureRate = None
                   THEN Done(Raise("IndexError"), None)
              ELSE Done(Return(None),
                        Some([tree EXCEPT
                                !.gnc.performance.mass =
                                    Some([text |-> Str(m.value), units |-> Some("kg")]),
                                !.gnc.performance.failureRate =
                                    Some([text |-> Str(f.value)])]))

\* API _get_element_types: the exercise leaves the loop out, the list stays empty
ApiGetElementTypes(architecture, element_ref) == Return(<<>>)

\* API _get_element_connections
ApiGetElementConnections(architecture, src_ref, tgt_ref) ==
    GetElementConnections(architecture.system.components, src_ref, tgt_ref)

\* lines 28-36 of the API evaluator: the map from the requested quantities
RECURSIVE QoiError(_, _, _, _)
QoiError(arch_qois, k, m, f) ==
    IF k > Len(arch_qois) THEN ""
    ELSE IF arch_qois[k] = "mass" /\ m.tag = "raise" THEN m.exc
    ELSE IF arch_qois[k] = "failure-rate" /\ f.tag = "raise" THEN f.exc
    ELSE QoiError(arch_qois, k + 1, m, f)

QoiMap(arch_qois, m, f) ==
    {<<arch_qois[k], IF arch_qois[k] = "mass"
                     THEN [quantity |-> m.value, units |-> "kg"]
                     ELSE f.value>> :
        k \in {q \in 1 .. Len(arch_qois) : arch_qois[q] \in {"mass", "failure-rate"}}}

\* API _evaluate
ApiEvaluate(architecture, arch_qois) ==
    LET in == Extracted(ApiGetElementTypes(architecture, "sensor"),
                        ApiGetElementTypes(architecture, "computer"),
                        ApiGetElementTypes(architecture, "actuator"),
                        ApiGetElementConnections(architecture, "sensor", "computer"),
                        ApiGetElementConnections(architecture, "computer", "actuator"))
    IN  IF in.tag = "raise" THEN Done(in, None)
        ELSE
          LET a   == in.value
              m   == CalcMass(a.sensor_types, a.computer_types, a.actuator_types)
              f   == CalcFailureRate(a.sensor_types, a.computer_types, a.conns,
                                     a.actuator_types, a.act_conns)
              err == QoiError(arch_qois, 1, m, f)
          IN  IF err # "" THEN Done(Raise(err), None)
              ELSE Done(Return(QoiMap(arch_qois, m, f)), None)

\* ----------------------------------------------------- evaluator inputs
\* the id of the input port (JSON, API) or the uID (XML) of unit i of a stage
PortId(stage, i) == <<stage, i>>
Dangling == <<"missing", 0>>

\* the target ids one source unit may name: any of the n units of the next
\* stage and an id that no unit has
TargetLists(stage, n) ==
    LET all == Fix([k \in 1 .. n + 1 |-> IF k <= n THEN PortId(stage, k - 1) ELSE Dangling],
                   n + 1)
    IN  {SelectSeq(all, LAMBDA e : e \in S) : S \in SUBSET {all[k] : k \in 1 .. n + 1}}

AllTargets(stage, n) == Fix([k \in 1 .. n |-> PortId(stage, k - 1)], n)

UnitTypes(n) == Fix([i \in 1 .. n |-> TypeNames[((i - 1) % NumTypes) + 1]], n)

Arch(st, ct, at, stg, ctg) == [st |-> st, ct |-> ct, at |-> at, stg |-> stg, ctg |-> ctg]

\* architectures that differ in what their sensors and computers point to
ConnectedArchs ==
    UNION {UNION {UNION {
        {Arch(UnitTypes(ns), UnitTypes(nc), UnitTypes(na), Fix(stg, ns), Fix(ctg, nc)) :
            stg \in [1 .. ns -> TargetLists("computer", nc)],
            ctg \in [1 .. nc -> TargetLists("actuator", na)]} :
        na \in 0 .. MaxActuators} :
        nc \in 1 .. MaxComputers} :
        ns \in 1 .. MaxSensors}

\* every sensor connected to every computer, every computer to every actuator
FullArch(st, ct, at) ==
    Arch(st, ct, at,
         Fix([i \in 1 .. Len(st) |-> AllTargets("computer", Len(ct))], Len(st)),
         Fix([i \in 1 .. Len(ct) |-> AllTargets("actuator", Len(at))], Len(ct)))

FullArchs ==
    {FullArch(UnitTypes(ns), UnitTypes(nc), UnitTypes(na)) :
        ns \in 1 .. MaxSensors, nc \in 1 .. MaxComputers, na \in 0 .. MaxActuators}

\* fully connected architectures with a type label that is not A, B or C
BadTypeArchs ==
    {FullArch(st, ct, at) :
        st \in [1 .. 1 -> Labels \cup BadLabels],
        ct \in [1 .. 1 -> Labels \cup BadLabels],
        at \in TypeLists(Labels \cup BadLabels, MaxActuators)}
    \ {FullArch(st, ct, at) :
        st \in [1 .. 1 -> Labels], ct \in [1 .. 1 -> Labels],
        at \in TypeLists(Labels, MaxActuators)}

Instance(index, type, targets, ids) ==
    [index       |-> index,
     type        |-> type,
     outputPorts |-> IF targets = <<>> THEN <<>> ELSE <<[targetIds |-> targets]>>,
     inputPorts  |-> Fix([k \in 1 .. Len(ids) |-> [id |-> ids[k]]], Len(ids))]

\* the architecture part of the JSON input (and the API's Architecture), with
\* instance indices starting at first
Architecture(a, first) ==
    [system |-> [components |-> <<
        [ref |-> "sensor",
         instances |-> Fix([i \in 1 .. Len(a.st) |->
                              Instance(i - 1 + first, a.st[i], a.stg[i], <<>>)], Len(a.st))],
        [ref |-> "computer",
         instances |-> Fix([i \in 1 .. Len(a.ct) |->
                              Instance(i - 1 + first, a.ct[i], a.ctg[i],
                                       <<PortId("computer", i - 1)>>)], Len(a.ct))],
        [ref |-> "actuator",
         instances |-> Fix([i \in 1 .. Len(a.at) |->
                              Instance(i - 1 + first, a.at[i], <<>>,
                                       <<PortId("actuator", i - 1)>>)], Len(a.at))]>>]]

Entry(ref) == [ref |-> ref, value |-> None, units |-> None]

StdOutputs == <<Entry("mass"), Entry("failure-rate")>>

OutputLists ==
    {<<>>, <<Entry("mass")>>, <<Entry("failure-rate")>>, StdOutputs,
     <<Entry("failure-rate"), Entry("mass")>>,
     <<Entry("power"), Entry("mass"), Entry("failure-rate")>>,
     <<[Entry("power") EXCEPT !.units = Some("W")],
       [Entry("failure-rate") EXCEPT !.units = Some("log10")],
       [Entry("mass") EXCEPT !.units = Some("g")]>>}

JsonData(a, first, outputs) ==
    [architecture |-> Architecture(a, first), outputs |-> outputs]

JsonDocs ==
    {JsonData(a, 0, StdOutputs) : a \in ConnectedArchs \cup BadTypeArchs}
    \cup {JsonData(a, 0, o) : a \in FullArchs, o \in OutputLists}
    \cup {JsonData(a, 1, o) : a \in FullArchs, o \in OutputLists}

\* the text of a targets element: None when the element is empty
TargetsText(targets) == IF targets = <<>> THEN None ELSE Some(targets)

XmlTree(a, mass_el, fr_el) ==
    [gnc |->
        [sensors   |-> Fix([i \in 1 .. Len(a.st) |->
                              [type |-> a.st[i], targets |-> TargetsText(a.stg[i])]],
                           Len(a.st)),
         computers |-> Fix([i \in 1 .. Len(a.ct) |->
                              [uID |-> PortId("computer", i - 1), type |-> a.ct[i],
                               targets |-> TargetsText(a.ctg[i])]],
                           Len(a.ct)),
         actuators |-> Fix([i \in 1 .. Len(a.at) |->
                              [uID |-> PortId("actuator", i - 1), type |-> a.at[i]]],
                           Len(a.at)),
         performance |->
            [mass        |-> IF mass_el THEN Some([text |-> None, units |-> None]) ELSE None,
             failureRate |-> IF fr_el THEN Some([text |-> None]) ELSE None]]]

XmlDocs ==
    {XmlTree(a, TRUE, TRUE) : a \in ConnectedArchs \cup BadTypeArchs}
    \cup {XmlTree(a, m, f) : a \in FullArchs, m \in BOOLEAN, f \in BOOLEAN}

QoiLists == {<<"mass", "failure-rate">>, <<"mass">>, <<"failure-rate">>}

\* a file an earlier run left at the output path
StaleFile == [stale |-> TRUE]

\* --------------------------------------------------- evaluator operations
Evaluated(op, input, done) ==
    /\ call' = [op |-> op, input |-> input]
    /\ retval' = done.result
    /\ pc' = IF done.result.tag = "raise" THEN "raised" ELSE "returned"
    /\ output_file' = IF done.written # None THEN done.written ELSE output_file
    /\ UNCHANGED <<mass, failure_rate, failure_rates, conn_matrices, stack>>

GncJsonEvaluate ==
    /\ pc = "idle"
    /\ \E data \in JsonDocs : Evaluated("gnc_json_evaluate", data, JsonEvaluate(data))

GncXmlNfeEvaluate ==
    /\ pc = "idle"
    /\ \E tree \in XmlDocs : Evaluated("gnc_xml_nfe_evaluate", tree, XmlEvaluate(tree))

ApiEvaluateCall ==
    /\ pc = "idle"
    /\ \E a \in ConnectedArchs, arch_qois \in QoiLists :
          Evaluated("_evaluate", [architecture |-> Architecture(a, 0), arch_qois |-> arch_qois],
                    ApiEvaluate(Architecture(a, 0), arch_qois))

\* the evaluator's caller goes on; at the next call the output path is free
\* or holds a file of an earlier run
EvaluatorReturn ==
    /\ pc \in {"returned", "raised"}
    /\ call.op \in {"gnc_json_evaluate", "gnc_xml_nfe_evaluate", "_evaluate"}
    /\ pc' = "idle"
    /\ call' = Idle
    /\ retval' = None
    /\ output_file' \in {None, Some(StaleFile)}
    /\ UNCHANGED <<mass, failure_rate, failure_rates, conn_matrices, stack>>

NextEval ==
    \/ GncJsonEvaluate
    \/ GncXmlNfeEvaluate
    \/ ApiEvaluateCall
    \/ EvaluatorReturn

SpecEval == Init /\ [][NextEval]_vars

\* a GNCCalculator whose failure_rate table holds the boundary rate 0 for
\* type A (line 56 reads the table through cls, so a subclass may replace it)
ZeroRateCatalog ==
    [k \in DOMAIN GNC_failure_rate |-> [GNC_failure_rate[k] EXCEPT !.A = 0]]

InitBoundary ==
    /\ mass = GNC_mass
    /\ failure_rate = ZeroRateCatalog
    /\ pc = "idle"
    /\ call = Idle
    /\ failure_rates = <<>>
    /\ conn_matrices = <<>>
    /\ stack = <<>>
    /\ retval = None
    /\ output_file = None

SpecBoundary == InitBoundary /\ [][Next]_vars

\* ---------------------------------------------------------------- claims
Returned(op) == pc = "returned" /\ call.op = op
Started(op)  == pc # "idle" /\ call.op = op

\* the failure probability the finished call took the log10 of
Probability == retval.value.arg

\* the call's edges are pairs of 0-based indices of existing units
ValidEdges(edges, n_src, n_tgt) ==
    \A k \in 1 .. Len(edges) :
        /\ 0 <= edges[k][1] /\ edges[k][1] < n_src
        /\ 0 <= edges[k][2] /\ edges[k][2] < n_tgt

IsTopology(c) ==
    /\ ValidEdges(c.conns, Len(c.sensor_types), Len(c.computer_types))
    /\ c.actuator_types # None =>
          ValidEdges(c.act_conns.val, Len(c.computer_types), Len(c.actuator_types.val))

SRate(i) == DRate(failure_rate.S[call.sensor_types[i]])
CRate(i) == DRate(failure_rate.C[call.computer_types[i]])
ARate(i) == DRate(failure_rate.A[call.actuator_types.val[i]])

\* C1: one sensor, one computer, the edge (0,0), no actuators: the failure
\* probability is s + (1 - s) * c, and 0.000249985 for types A and A
C1_TwoStageCase ==
    (/\ Returned("calc_failure_rate")
     /\ Len(call.sensor_types) = 1 /\ Len(call.computer_types) = 1
     /\ call.conns = << <<0, 0>> >> /\ call.actuator_types = None)
    => /\ retval.tag = "return" /\ retval.value.finite
       /\ Probability = DNormal(DAdd(SRate(1), DMul(DSub(DOne, SRate(1)), CRate(1))))
       /\ (call.sensor_types = <<"A">> /\ call.computer_types = <<"A">>)
             => Probability = DLit(0, <<24, 99850>>)

C1_Witness ==
    /\ Returned("calc_failure_rate")
    /\ call.sensor_types = <<"A">> /\ call.computer_types = <<"A">>
    /\ call.conns = << <<0, 0>> >> /\ call.actuator_types = None
    /\ Probability = DLit(0, <<24, 99850>>)

\* C2: the fully connected 1x1x1 chain fails with probability
\* s + (1 - s) * (c + (1 - c) * a)
C2_ThreeStageChain ==
    (/\ Returned("calc_failure_rate")
     /\ Len(call.sensor_types) = 1 /\ Len(call.computer_types) = 1
     /\ call.conns = << <<0, 0>> >>
     /\ call.actuator_types # None /\ Len(call.actuator_types.val) = 1
     /\ call.act_conns = Some(<< <<0, 0>> >>))
    => /\ retval.tag = "return"
       /\ Probability =
            DNormal(DAdd(SRate(1),
                         DMul(DSub(DOne, SRate(1)),
                              DAdd(CRate(1), DMul(DSub(DOne, CRate(1)), ARate(1))))))

C2_Witness ==
    /\ Returned("calc_failure_rate")
    /\ call.sensor_types = <<"A">> /\ call.computer_types = <<"B">>
    /\ call.conns = << <<0, 0>> >>
    /\ call.actuator_types = Some(<<"A">>) /\ call.act_conns = Some(<< <<0, 0>> >>)
    /\ Probability # DNormal(DAdd(SRate(1), DMul(DSub(DOne, SRate(1)), CRate(1))))

\* the call's arguments with the type of one unit replaced
Retyped(c, stage, i, label) ==
    IF stage = "S" THEN [c EXCEPT !.sensor_types[i] = label]
    ELSE IF stage = "C" THEN [c EXCEPT !.computer_types[i] = label]
    ELSE [c EXCEPT !.actuator_types.val[i] = label]

StageTypes(c, stage) ==
    IF stage = "S" THEN c.sensor_types
    ELSE IF stage = "C" THEN c.computer_types
    ELSE IF c.actuator_types # None THEN c.actuator_types.val ELSE <<>>

ProbabilityOf(c) ==
    FailureProbability(c.sensor_types, c.computer_types, c.conns,
                       c.actuator_types, c.act_conns)

\* the exact part of C3: giving one unit a type with a higher failure rate,
\* all else fixed, never lowers the failure probability in exact arithmetic
C3_Monotonicity ==
    (Returned("calc_failure_rate") /\ IsTopology(call)) =>
        \A stage \in {"S", "C", "A"} :
          \A i \in 1 .. Len(StageTypes(call, stage)) :
            \A label \in Labels :
              failure_rate[stage][label] >= failure_rate[stage][StageTypes(call, stage)[i]]
                => DLeq(Probability, ProbabilityOf(Retyped(call, stage, i, label)))

C3_Witness ==
    /\ Returned("calc_failure_rate") /\ IsTopology(call)
    /\ Len(call.sensor_types) = 2 /\ Len(call.computer_types) = 2
    /\ call.actuator_types # None /\ Len(call.actuator_types.val) = 1
    /\ call.computer_types[2] = "B"
    /\ ~DLeq(ProbabilityOf(Retyped(call, "C", 2, "A")), Probability)

\* C4: a failure probability of exactly 0 is never turned into a returned
\* value: the call fails instead
C4_ZeroProbabilityRaises ==
    (Returned("calc_failure_rate") /\ IsTopology(call)) =>
        retval.value.finite /\ ~DIsZero(Probability)

\* C5: a call that got past the construction of the matrices has only edges
\* whose indices are 0-based indices of existing units
C5_InvalidEdgeRaises ==
    (call.op = "calc_failure_rate" /\ pc \in {"branch", "returned"}) => IsTopology(call)

\* the ids of the input ports of the units of one component name
JsonTargetIds(components, ref) ==
    UNION {UNION {{components[c].instances[k].inputPorts[q].id :
                      q \in 1 .. Len(components[c].instances[k].inputPorts)} :
                  k \in 1 .. Len(components[c].instances)} :
           c \in {d \in 1 .. Len(components) : components[d].ref = ref}}

\* a unit of src_ref names a target id that no unit of tgt_ref has
JsonDangling(components, src_ref, tgt_ref) ==
    \E c \in 1 .. Len(components) :
      /\ components[c].ref = src_ref
      /\ \E k \in 1 .. Len(components[c].instances) :
           \E q \in 1 .. Len(components[c].instances[k].outputPorts) :
             \E t \in 1 .. Len(components[c].instances[k].outputPorts[q].targetIds) :
               components[c].instances[k].outputPorts[q].targetIds[t]
                  \notin JsonTargetIds(components, tgt_ref)

JsonHasUnits(components, ref) ==
    \E c \in 1 .. Len(components) :
        components[c].ref = ref /\ Len(components[c].instances) > 0

\* an element of src_stage names a uID that no element of tgt_stage has
XmlDangling(tree, src_stage, tgt_stage) ==
    \E k \in 1 .. Len(tree.gnc[src_stage]) :
      /\ tree.gnc[src_stage][k].targets # None
      /\ \E q \in 1 .. Len(tree.gnc[src_stage][k].targets.val) :
            tree.gnc[src_stage][k].targets.val[q]
               \notin {tree.gnc[tgt_stage][j].uID : j \in 1 .. Len(tree.gnc[tgt_stage])}

\* what the extraction of types and edges raises, as opposed to the calculator
ExtractionErrors == {"AssertionError", "RuntimeError", "KeyError", "AttributeError"}

FailedInExtraction == pc = "raised" /\ retval.exc \in ExtractionErrors

\* C6: in the JSON, XML and API adapters an outgoing connection to an id that
\* no unit of the target stage has makes the edge extraction raise, and the
\* evaluation that runs the extraction ends with that error before a metric
\* is computed; the computer-to-actuator edges are read only when actuator
\* units were found (never in the API adapter, whose type extraction is empty)
C6_DanglingTargetRaises ==
    /\ Started("gnc_json_evaluate") =>
          LET comps == call.input.architecture.system.components
          IN  /\ \A tr \in {<<"sensor", "computer">>, <<"computer", "actuator">>} :
                    JsonDangling(comps, tr[1], tr[2])
                        => GetElementConnections(comps, tr[1], tr[2]).tag = "raise"
              /\ (\/ JsonDangling(comps, "sensor", "computer")
                  \/ /\ JsonHasUnits(comps, "actuator")
                     /\ JsonDangling(comps, "computer", "actuator"))
                    => FailedInExtraction
    /\ Started("_evaluate") =>
          LET comps == call.input.architecture.system.components
          IN  /\ \A tr \in {<<"sensor", "computer">>, <<"computer", "actuator">>} :
                    JsonDangling(comps, tr[1], tr[2])
                        => ApiGetElementConnections(call.input.architecture,
                                                    tr[1], tr[2]).tag = "raise"
              /\ JsonDangling(comps, "sensor", "computer") => FailedInExtraction
    /\ Started("gnc_xml_nfe_evaluate") =>
          /\ \A tr \in {<<"sensors", "computers">>, <<"computers", "actuators">>} :
                XmlDangling(call.input, tr[1], tr[2])
                    => XmlGetElementConnections(call.input, tr[1], tr[2]).tag = "raise"
          /\ (\/ XmlDangling(call.input, "sensors", "computers")
              \/ /\ Len(call.input.gnc.actuators) > 0
                 /\ XmlDangling(call.input, "computers", "actuators"))
                => FailedInExtraction

\* the first sensor names computer 0 and an id that no computer has
C6_Witness ==
    /\ Started("gnc_json_evaluate") /\ retval = Raise("RuntimeError")
    /\ LET comps == call.input.architecture.system.components
       IN  /\ JsonDangling(comps, "sensor", "computer")
           /\ comps[1].instances[1].outputPorts[1].targetIds
                 = <<PortId("computer", 0), Dangling>>

UnknownType(c) ==
    \/ \E i \in 1 .. Len(c.sensor_types) : c.sensor_types[i] \notin TypeNamesSet
    \/ \E i \in 1 .. Len(c.computer_types) : c.computer_types[i] \notin TypeNamesSet
    \/ /\ c.actuator_types # None
       /\ \E i \in 1 .. Len(c.actuator_types.val) : c.actuator_types.val[i] \notin TypeNamesSet

\* C7: a type label outside A, B, C, in any stage, makes calc_mass and
\* calc_failure_rate raise and return nothing
C7_UnknownTypeRaises ==
    ((Started("calc_mass") \/ Started("calc_failure_rate")) /\ UnknownType(call))
        => pc = "raised" /\ retval = Raise("KeyError")

C7_Witness ==
    /\ Started("calc_mass") /\ pc = "raised"
    /\ call.sensor_types = <<"A">> /\ call.computer_types = <<"B">>
    /\ call.actuator_types = Some(<<"X">>)

\* every metric the input asks for has a value in the written file
AllMetricsIn(op, input, file) ==
    IF op = "gnc_json_evaluate"
    THEN \A k \in 1 .. Len(input.outputs) :
            input.outputs[k].ref \in {"mass", "failure-rate"}
                => file.outputs[k].value # None
    ELSE /\ file.gnc.performance.mass.val.text # None
         /\ file.gnc.performance.failureRate.val.text # None

\* C8: a call of the JSON or the XML file evaluator that raises, in the
\* extraction or in either metric, leaves the output path as it was; the path
\* gets a file only from a call that returned, and that file holds every
\* requested metric
C8_NoPartialResult ==
    [][(pc = "idle" /\ call'.op \in {"gnc_json_evaluate", "gnc_xml_nfe_evaluate"})
          => /\ pc' = "raised" => output_file' = output_file
             /\ output_file' # output_file
                   => /\ pc' = "returned"
                      /\ AllMetricsIn(call'.op, call'.input, output_file'.val)]_vars

\* the mass was computed, the failure rate raised (instance indices from 1),
\* and no file was written
C8_Witness ==
    /\ Started("gnc_json_evaluate") /\ retval = Raise("IndexError")
    /\ call.input.outputs = StdOutputs
    /\ output_file = None

\* the raw edge list has an edge from source i (1-based position)
HasEdgeFrom(edges, i) == \E k \in 1 .. Len(edges) : edges[k][1] = i - 1

\* no sensor marked survived in the scenario has an edge to a computer
NoSurvivorEdge == \A i \in 1 .. Len(OkSources) : OkSources[i] => ~HasEdgeFrom(call.conns, i)

\* C9: a root scenario in which no surviving sensor has an edge adds its whole
\* occurrence probability and starts no recursive call; with an empty
\* sensor-to-computer edge list the failure probability is exactly 1
C9_NoConnectivity ==
    [][/\ (InLoop /\ Top.i_rates = 0 /\ IsTopology(call) /\ NoSurvivorEdge)
            => /\ Len(stack') = 1
               /\ stack'[1].todo = Tail(Top.todo)
               /\ DEq(stack'[1].total_rate, DAdd(Top.total_rate, CurOccurrence))
       /\ (pc' = "returned" /\ call'.op = "calc_failure_rate" /\ call'.conns = <<>>)
            => retval'.value.finite /\ retval'.value.arg = DOne]_vars

\* the scenarios (failed, failed) and (failed, survived) of two sensors, the
\* second without an edge, are done and have added s1*s2 + s1*(1 - s2) = s1
C9_Witness ==
    /\ pc = "branch" /\ Len(stack) = 1 /\ call.op = "calc_failure_rate"
    /\ Len(call.sensor_types) = 2 /\ Len(call.computer_types) = 1
    /\ call.conns = << <<0, 0>> >>
    /\ Len(Top.todo) = 2
    /\ DEq(Top.total_rate, SRate(1))

RECURSIVE Count(_, _)
Count(types, label) ==
    IF types = <<>> THEN 0
    ELSE (IF Head(types) = label THEN 1 ELSE 0) + Count(Tail(types), label)

RECURSIVE WeightedCount(_, _, _)
WeightedCount(kind, types, k) ==
    IF k > Len(TypeNames) THEN 0
    ELSE mass[kind][TypeNames[k]] * Count(types, TypeNames[k])
         + WeightedCount(kind, types, k + 1)

\* C10: calc_mass is the sum of the catalog masses of all units, and without
\* actuators (None) it equals the call with an empty actuator list
C10_MassIsSum ==
    (Returned("calc_mass")) =>
        /\ retval.value = WeightedCount("S", call.sensor_types, 1)
                          + WeightedCount("C", call.computer_types, 1)
                          + WeightedCount("A", StageTypes(call, "A"), 1)
        /\ call.actuator_types = None =>
              retval = CalcMass(call.sensor_types, call.computer_types, Some(<<>>))

\* 3 kg + 5 kg + 3.5 kg, in half kilograms
C10_Witness ==
    /\ Returned("calc_mass")
    /\ call.sensor_types = <<"A">> /\ call.computer_types = <<"B">>
    /\ call.actuator_types = Some(<<"A">>)
    /\ retval.value = 23

\* the permutations of 1 .. n
Perms(n) == {p \in [1 .. n -> 1 .. n] : \A i, j \in 1 .. n : p[i] = p[j] => i = j}

\* the list with its entries in the order p
Permuted(types, p) == [i \in 1 .. Len(types) |-> types[p[i]]]

\* the call's arguments with the list of one stage replaced
WithStageTypes(c, stage, types) ==
    IF stage = "S" THEN [c EXCEPT !.sensor_types = types]
    ELSE IF stage = "C" THEN [c EXCEPT !.computer_types = types]
    ELSE IF c.actuator_types # None THEN [c EXCEPT !.actuator_types = Some(types)]
    ELSE c

MassOf(c) == CalcMass(c.sensor_types, c.computer_types, c.actuator_types)

\* C11: calc_mass returns the same value for the type lists of a stage in any
\* order
C11_MassCommutes ==
    Returned("calc_mass") =>
        \A stage \in {"S", "C", "A"} :
          \A p \in Perms(Len(StageTypes(call, stage))) :
            MassOf(WithStageTypes(call, stage, Permuted(StageTypes(call, stage), p)))
                = retval

\* sensors A, B weigh what sensors B, A weigh, and not twice the first
C11_Witness ==
    /\ Returned("calc_mass")
    /\ call.sensor_types = <<"A", "B">> /\ call.computer_types = <<"B", "A">>
    /\ call.actuator_types = Some(<<"B">>)
    /\ retval = MassOf(WithStageTypes(call, "S", <<"B", "A">>))
    /\ retval.value # 2 * mass.S.A + mass.C.B + mass.C.A + mass.A.B

\* both groups of operations: the calculator called directly and the adapters
NextAll ==
    \/ Next
    \/ NextEval

SpecAll == Init /\ [][NextAll]_vars

\* lines 28-38 of the JSON evaluator: what it passes to GNCCalculator
JsonExtracted(data) ==
    Extracted(GetElementTypes(data, "sensor"),
              GetElementTypes(data, "computer"),
              GetElementTypes(data, "actuator"),
              GetElementConnections(data.architecture.system.components,
                                    "sensor", "computer"),
              GetElementConnections(data.architecture.system.components,
                                    "computer", "actuator"))

\* lines 56-66 of the XML evaluator
XmlExtracted(tree) ==
    Extracted(XmlGetElementTypes(tree, "sensors"),
              XmlGetElementTypes(tree, "computers"),
              XmlGetElementTypes(tree, "actuators"),
              XmlGetElementConnections(tree, "sensors", "computers"),
              XmlGetElementConnections(tree, "computers", "actuators"))

\* lines 15-25 of the API evaluator
ApiExtracted(architecture) ==
    Extracted(ApiGetElementTypes(architecture, "sensor"),
              ApiGetElementTypes(architecture, "computer"),
              ApiGetElementTypes(architecture, "actuator"),
              ApiGetElementConnections(architecture, "sensor", "computer"),
              ApiGetElementConnections(architecture, "computer", "actuator"))

\* the calculator is given neither an actuator list nor actuator edges
AbsentCase(in) ==
    in.tag = "return" => in.value.actuator_types = None /\ in.value.act_conns = None

\* values of act_conns a caller may pass along with actuator_types = None
SomeActConns ==
    {None, Some(<<>>), Some(<< <<0, 0>> >>), Some(<< <<MaxEdges, 0 - MaxEdges>> >>)}

\* C12: without actuators (actuator_types None) calc_failure_rate works on two
\* stages and one transition, starts no recursive call and does not read
\* act_conns; with actuators it works on three stages and two transitions;
\* every adapter passes None for an architecture without actuator units
C12_ActuatorsOptional ==
    /\ (call.op = "calc_failure_rate" /\ pc = "branch") =>
          IF call.actuator_types = None
          THEN Len(failure_rates) = 2 /\ Len(conn_matrices) = 1 /\ Len(stack) = 1
          ELSE Len(failure_rates) = 3 /\ Len(conn_matrices) = 2 /\ Len(stack) <= 2
    /\ (Returned("calc_failure_rate") /\ call.actuator_types = None) =>
          \A ac \in SomeActConns :
              CalcFailureRate(call.sensor_types, call.computer_types, call.conns,
                              None, ac) = retval
    /\ (Started("gnc_json_evaluate")
          /\ ~JsonHasUnits(call.input.architecture.system.components, "actuator"))
          => AbsentCase(JsonExtracted(call.input))
    /\ (Started("gnc_xml_nfe_evaluate") /\ Len(call.input.gnc.actuators) = 0)
          => AbsentCase(XmlExtracted(call.input))
    /\ (Started("_evaluate")
          /\ ~JsonHasUnits(call.input.architecture.system.components, "actuator"))
          => AbsentCase(ApiExtracted(call.input.architecture))

\* the XML evaluator returned for a tree with two computers and no actuator
\* elements, and wrote its file
C12_Witness ==
    /\ Returned("gnc_xml_nfe_evaluate")
    /\ Len(call.input.gnc.actuators) = 0
    /\ Len(call.input.gnc.computers) = 2
    /\ XmlExtracted(call.input).value.actuator_types = None
    /\ output_file # None

\* C13: no step of calc_mass or calc_failure_rate changes the catalog tables
\* or the lists the call was given, and from the root call of _branch_failures
\* to the return the rate arrays and the connection matrices stay as built,
\* over every scenario and every recursive call
C13_Purity ==
    [][/\ mass' = mass /\ failure_rate' = failure_rate
       /\ (Started("calc_mass") \/ Started("calc_failure_rate")) /\ pc' # "idle"
             => call' = call
       /\ (call.op = "calc_failure_rate" /\ pc = "branch")
             => /\ failure_rates' = failure_rates
                /\ conn_matrices' = conn_matrices
                /\ failure_rates = FailureRates(call.sensor_types, call.computer_types,
                                                call.actuator_types)]_vars

\* a three-stage call has gone through all its root scenarios, recursive
\* calls included, and its arrays are those a fresh call would build
C13_Witness ==
    /\ pc = "branch" /\ call.op = "calc_failure_rate"
    /\ call.actuator_types # None /\ Len(call.act_conns.val) > 0 /\ Len(call.conns) > 0
    /\ Len(stack) = 1 /\ Top.todo = <<>>
    /\ failure_rates = FailureRates(call.sensor_types, call.computer_types,
                                    call.actuator_types)
    /\ conn_matrices = ConnMatrices(failure_rates,
                                    ObjConns(call.conns, call.actuator_types, call.act_conns))

\* C14: a call's result is a function of its arguments alone.  Whatever calls
\* came before, a call starts with the tables of the class definition and no
\* locals of an earlier call, and what it returns or raises is what the
\* function gives for its arguments, so two calls with the same arguments end
\* the same
C14_Determinism ==
    /\ mass = GNC_mass /\ failure_rate = GNC_failure_rate
    /\ pc = "idle" => failure_rates = <<>> /\ conn_matrices = <<>> /\ stack = <<>>
    /\ (Started("calc_mass") /\ pc \in {"returned", "raised"}) =>
          retval = CalcMass(call.sensor_types, call.computer_types, call.actuator_types)
    /\ (Started("calc_failure_rate") /\ pc \in {"returned", "raised"}) =>
          retval = CalcFailureRate(call.sensor_types, call.computer_types, call.conns,
                                   call.actuator_types, call.act_conns)

\* a call with two sensors of different types, after which the tables are
\* those every other call reads
C14_Witness ==
    /\ Returned("calc_failure_rate")
    /\ call.sensor_types = <<"B", "A">> /\ Len(call.computer_types) = 2
    /\ Len(call.conns) = 3 /\ call.actuator_types = Some(<<"B">>)
    /\ Len(call.act_conns.val) = 2
    /\ mass = GNC_mass /\ failure_rate = GNC_failure_rate
    /\ retval = CalcFailureRate(call.sensor_types, call.computer_types, call.conns,
                                call.actuator_types, call.act_conns)

\* the numbers of units of the call's stages
NumS(c) == Len(c.sensor_types)
NumC(c) == Len(c.computer_types)
NumA(c) == Len(StageTypes(c, "A"))
NumUnits(c) == NumS(c) + NumC(c) + NumA(c)

\* unit u of all units, sensors first, survives in assignment number m
Alive(m, u) == (m \div (2 ^ (u - 1))) % 2 = 1

HasEdge(edges, i, j) == \E k \in 1 .. Len(edges) : edges[k] = <<i - 1, j - 1>>

\* assignment m has a chain of surviving units linked by edges, from a sensor
\* to a computer and, with actuators, on to an actuator
HasChain(c, m) ==
    \E i \in 1 .. NumS(c), j \in 1 .. NumC(c) :
      /\ Alive(m, i) /\ Alive(m, NumS(c) + j) /\ HasEdge(c.conns, i, j)
      /\ c.actuator_types # None =>
            \E k \in 1 .. NumA(c) :
                Alive(m, NumS(c) + NumC(c) + k) /\ HasEdge(c.act_conns.val, j, k)

UnitRate(c, u) ==
    IF u <= NumS(c) THEN DRate(failure_rate.S[c.sensor_types[u]])
    ELSE IF u <= NumS(c) + NumC(c)
         THEN DRate(failure_rate.C[c.computer_types[u - NumS(c)]])
    ELSE DRate(failure_rate.A[c.actuator_types.val[u - NumS(c) - NumC(c)]])

\* the probability of assignment m
AssignmentProb(c, m) ==
    ProdFrom([u \in 1 .. NumUnits(c) |->
                IF Alive(m, u) THEN DSub(DOne, UnitRate(c, u)) ELSE UnitRate(c, u)], 1)

\* the reference value: the probabilities of the assignments m, m + 1, ...
\* without a chain, summed
RECURSIVE ReferenceFrom(_, _)
ReferenceFrom(c, m) ==
    IF m >= 2 ^ NumUnits(c) THEN DZero
    ELSE DAdd(IF HasChain(c, m) THEN DZero ELSE AssignmentProb(c, m),
              ReferenceFrom(c, m + 1))

\* C15: the failure probability is the sum, over all joint survived/failed
\* assignments of all units, of the probability of every assignment without a
\* chain of surviving units linked by edges
C15_MatchesReference ==
    (Returned("calc_failure_rate") /\ IsTopology(call)) =>
        Probability = DNormal(ReferenceFrom(call, 0))

\* five units, the second sensor and the second computer without an edge
C15_Witness ==
    /\ Returned("calc_failure_rate")
    /\ Len(call.sensor_types) = 2 /\ Len(call.computer_types) = 2
    /\ call.conns = << <<0, 0>> >>
    /\ call.actuator_types # None /\ call.act_conns = Some(<< <<0, 0>>, <<1, 0>> >>)
    /\ Probability = DNormal(ReferenceFrom(call, 0))
    /\ Probability # DOne

RECURSIVE CountTrue(_)
CountTrue(mask) ==
    IF mask = <<>> THEN 0 ELSE (IF Head(mask) THEN 1 ELSE 0) + CountTrue(Tail(mask))

\* the frame of a call that starts: 2^n different scenarios for its n
\* connected units, the one with every unit failed among them exactly once
FreshScenarios(f) ==
    /\ Len(f.todo) = 2 ^ CountTrue(f.src_connected_mask)
    /\ \A a, b \in 1 .. Len(f.todo) : f.todo[a] = f.todo[b] => a = b
    /\ Cardinality({a \in 1 .. Len(f.todo) : ~AnyTrue(f.todo[a])}) = 1
    /\ f.i_rates = 0 => CountTrue(f.src_connected_mask) = Len(call'.sensor_types)

\* the step leaves the scenario at hand without adding anything
SkipsScenario ==
    /\ Len(stack') = Len(stack)
    /\ DEq(stack'[Len(stack)].total_rate, Top.total_rate)

\* C16: a call of _branch_failures has 2^n scenarios for its n connected
\* units and goes through each once; at a transition after the first it skips
\* exactly the one in which every connected unit failed, at the root it skips
\* none
C16_SkipsOnlyAllFailed ==
    [][/\ (pc' = "branch" /\ Len(stack') = Len(stack) + 1)
             => FreshScenarios(stack'[Len(stack')])
       /\ InLoop
             => /\ SkipsScenario <=> (Top.i_rates > 0 /\ ~AnyTrue(OkSources))
                /\ Len(stack') = Len(stack) => stack'[Len(stack)].todo = Tail(Top.todo)
       /\ (pc = "branch" /\ Len(stack') = Len(stack) - 1 /\ Len(stack) > 1)
             => stack'[Len(stack')].todo = Tail(stack[Len(stack')].todo)]_vars

\* the call for two connected computers is at its first scenario, both
\* failed, with three more to go
C16_Witness ==
    /\ pc = "branch" /\ Len(stack) = 2 /\ Top.i_rates = 1
    /\ Top.src_connected_mask = <<TRUE, TRUE>>
    /\ Len(Top.todo) = 4 /\ OkSources = <<FALSE, FALSE>>

\* the survived/failed assignments of the units of a mask
Assignments(mask) ==
    {ok \in [1 .. Len(mask) -> BOOLEAN] : \A i \in 1 .. Len(mask) : ok[i] => mask[i]}

\* the product, over the units i, i + 1, ... that are in the mask, of the
\* failure rate of a failed unit and of 1 - failure rate of a survived one
RECURSIVE FactorsOver(_, _, _, _)
FactorsOver(rates, ok, mask, i) ==
    IF i > Len(rates) THEN DOne
    ELSE IF ~mask[i] THEN FactorsOver(rates, ok, mask, i + 1)
    ELSE DMul(IF ok[i] THEN DSub(DOne, DRate(rates[i])) ELSE DRate(rates[i]),
              FactorsOver(rates, ok, mask, i + 1))

RECURSIVE SumOverAssignments(_, _, _)
SumOverAssignments(rates, mask, todo) ==
    IF todo = {} THEN DZero
    ELSE LET ok == CHOOSE a \in todo : TRUE
         IN  DAdd(FactorsOver(rates, ok, mask, 1),
                  SumOverAssignments(rates, mask, todo \ {ok}))

\* C17: in every call of _branch_failures a scenario marks only units of the
\* connected mask as survived, its occurrence probability is the product over
\* exactly the units of the mask, and the occurrence probabilities of all
\* assignments over the mask add up to 1
C17_OccurrenceOverMask ==
    (call.op = "calc_failure_rate" /\ InLoop) =>
        /\ \A k \in 1 .. Len(Top.todo) : Top.todo[k] \in Assignments(Top.src_connected_mask)
        /\ DEq(CurOccurrence, FactorsOver(Rates, OkSources, Top.src_connected_mask, 1))
        /\ DEq(SumOverAssignments(Rates, Top.src_connected_mask,
                                  Assignments(Top.src_connected_mask)), DOne)

\* of two computers only the first is connected; it survived
C17_Witness ==
    /\ call.op = "calc_failure_rate" /\ InLoop /\ Top.i_rates = 1
    /\ Top.src_connected_mask = <<TRUE, FALSE>> /\ OkSources = <<TRUE, FALSE>>
    /\ DEq(CurOccurrence, DSub(DOne, CRate(1)))

\* unit j of the next stage has an edge from a unit that is in the mask of the
\* activation f and survived in the scenario f is running
FedBySurvivor(f, j) ==
    \E i \in 1 .. Len(f.src_connected_mask) :
        /\ f.src_connected_mask[i]
        /\ Head(f.todo)[i]
        /\ conn_matrices[f.i_rates + 1][i][j] = 1

\* C18: a unit of the next stage is a connected target exactly if a source that
\* is in the connected mask and survived has an edge to it; so the mask of every
\* recursive call is non-empty and holds only units fed by a surviving unit of
\* the stage before
C18_TargetsFedBySurvivors ==
    (call.op = "calc_failure_rate" /\ pc = "branch") =>
        /\ InLoop => \A j \in 1 .. Len(TgtRates) : CurTargets[j] <=> FedBySurvivor(Top, j)
        /\ \A k \in 2 .. Len(stack) :
              /\ \E j \in 1 .. Len(stack[k].src_connected_mask) : stack[k].src_connected_mask[j]
              /\ \A j \in 1 .. Len(stack[k].src_connected_mask) :
                    stack[k].src_connected_mask[j] => FedBySurvivor(stack[k - 1], j)

\* two computers, both with an edge from some sensor, but only the first from
\* the sensor that survived: the recursive call runs on the first alone
C18_Witness ==
    /\ call.op = "calc_failure_rate" /\ pc = "branch" /\ Len(stack) = 2
    /\ stack[1].i_rates = 0 /\ Len(stack[1].src_connected_mask) = 2
    /\ Head(stack[1].todo) = <<TRUE, FALSE>>
    /\ conn_matrices[1] = <<<<1, 0>>, <<0, 1>>>>
    /\ stack[2].src_connected_mask = <<TRUE, FALSE>>

\* the product of the failure rates of the units j, j + 1, ... of the set T
RECURSIVE RateProduct(_, _, _)
RateProduct(tgt_rates, T, j) ==
    IF j > Len(tgt_rates) THEN DOne
    ELSE IF T[j] THEN DMul(DRate(tgt_rates[j]), RateProduct(tgt_rates, T, j + 1))
    ELSE RateProduct(tgt_rates, T, j + 1)

\* the scenario at hand is evaluated and has connected targets
EvaluatesWithTargets ==
    /\ call.op = "calc_failure_rate" /\ InLoop
    /\ ~SkipScenario(Top.i_rates, OkSources)
    /\ \E j \in 1 .. Len(CurTargets) : CurTargets[j]

\* a recursive call has run all its scenarios
RecursiveCallEnds ==
    /\ call.op = "calc_failure_rate" /\ pc = "branch"
    /\ Len(stack) > 1 /\ Top.todo = <<>>

\* C19: a scenario with connected targets T always adds occurrence probability
\* times the product of the failure rates of T; it adds occurrence probability
\* times the branch failure of the next transition on T exactly if the
\* transition at hand is not the last one, and otherwise makes no recursive call
C19_TermsPerScenario ==
    [][ LET n     == Len(stack)
            K     == Len(conn_matrices)
            first == DAdd(Top.total_rate,
                          DMul(CurOccurrence, RateProduct(TgtRates, CurTargets, 1)))
        IN  /\ EvaluatesWithTargets =>
                 IF Top.i_rates < K - 1
                 THEN /\ Len(stack') = n + 1
                      /\ stack'[n + 1].i_rates = Top.i_rates + 1
                      /\ stack'[n + 1].src_connected_mask = CurTargets
                      /\ stack'[n].todo = Top.todo
                      /\ DEq(stack'[n].total_rate, first)
                 ELSE /\ Len(stack') = n
                      /\ stack'[n].todo = Tail(Top.todo)
                      /\ DEq(stack'[n].total_rate, first)
            /\ RecursiveCallEnds =>
                 LET caller == stack[n - 1]
                 IN  /\ Len(stack') = n - 1
                     /\ caller.i_rates < K - 1
                     /\ stack'[n - 1].todo = Tail(caller.todo)
                     /\ DEq(stack'[n - 1].total_rate,
                            DAdd(caller.total_rate,
                                 DMul(OccurrenceProb(failure_rates[caller.i_rates + 1],
                                                     Head(caller.todo),
                                                     caller.src_connected_mask),
                                      BranchFailures(failure_rates, conn_matrices,
                                                     Top.i_rates, Top.src_connected_mask))))
      ]_vars

\* three stages: a scenario of the first transition has added its term and
\* made the recursive call, in which a scenario of the last transition has
\* added its term with no further call
C19_Witness ==
    /\ call.op = "calc_failure_rate" /\ pc = "branch"
    /\ Len(conn_matrices) = 2 /\ Len(stack) = 2
    /\ stack[2].i_rates = 1
    /\ ~DIsZero(stack[1].total_rate)
    /\ ~DIsZero(stack[2].total_rate)
    /\ Len(stack[2].todo) < Len(Product(stack[2].src_connected_mask, 1))

\* _branch_failures is running for a call with a valid topology
RunningOnTopology ==
    call.op = "calc_failure_rate" /\ pc = "branch" /\ IsTopology(call)

\* K, the number of transitions between the stages of the call
NumTransitions == IF call.actuator_types = None THEN 1 ELSE 2

\* the root activation has transition index 0, every recursive one the index of
\* its caller plus 1, no index reaches K, and no more than K activations nest
IndexedByDepth ==
    RunningOnTopology =>
        /\ Len(conn_matrices) = NumTransitions
        /\ stack # <<>>
        /\ stack[1].i_rates = 0
        /\ \A k \in 2 .. Len(stack) : stack[k].i_rates = stack[k - 1].i_rates + 1
        /\ \A k \in 1 .. Len(stack) : stack[k].i_rates < NumTransitions
        /\ Len(stack) <= NumTransitions

\* C20: on a valid topology calc_failure_rate terminates: _branch_failures is
\* entered with transition index 0, each recursive call raises the index by
\* exactly 1, the index stays below the number K of transitions (1 or 2), the
\* nesting depth stays at most K, and the call returns
C20_Terminates ==
    /\ []IndexedByDepth
    /\ RunningOnTopology ~> Returned("calc_failure_rate")

\* a call with three stages returned after its recursion was K = 2 deep
C20_Witness ==
    /\ Returned("calc_failure_rate") /\ IsTopology(call)
    /\ call.actuator_types # None /\ Len(call.actuator_types.val) = 1
    /\ Len(call.sensor_types) = 2 /\ Len(call.computer_types) = 2
    /\ Len(call.conns) = 2 /\ Len(call.act_conns.val) = 2
    /\ retval.tag = "return"

\* C21: for every topology with at least one sensor and catalog failure rates,
\* the failure probability before the log transform is above 0 and at most 1,
\* so the value calc_failure_rate returns is finite and not positive
C21_ProbabilityInUnitInterval ==
    (/\ Returned("calc_failure_rate")
     /\ IsTopology(call)
     /\ Len(call.sensor_types) >= 1) =>
        /\ retval.tag = "return"
        /\ Probability.m # <<>>
        /\ Probability.e < FOne.e \/ Probability = FOne
        /\ retval.value.finite
        /\ ~retval.value.positive

\* what calc_failure_rate gives for the arguments of c, in the program's arithmetic
FloatResultOf(c) ==
    CalcFailureRateFloat(c.sensor_types, c.computer_types, c.conns,
                         c.actuator_types, c.act_conns)

\* computer j has an edge from a sensor; actuator k has an edge from such a computer
FedComputer(c, j) == \E i \in 1 .. Len(c.sensor_types) : HasEdge(c.conns, i, j)
FedActuator(c, k) ==
    \E j \in 1 .. Len(c.computer_types) :
        FedComputer(c, j) /\ HasEdge(c.act_conns.val, j, k)

\* C22: the result of calc_failure_rate does not depend on the type of a
\* computer with no edge from a sensor, nor on the type of an actuator with no
\* edge from a computer that has an edge from a sensor
C22_UnconnectedTypeIrrelevant ==
    (Returned("calc_failure_rate") /\ IsTopology(call)) =>
        /\ \A j \in 1 .. Len(call.computer_types) : \A label \in Labels :
              ~FedComputer(call, j) => FloatResultOf(Retyped(call, "C", j, label)) = retval
        /\ call.actuator_types # None =>
              \A k \in 1 .. Len(call.actuator_types.val) : \A label \in Labels :
                 ~FedActuator(call, k) => FloatResultOf(Retyped(call, "A", k, label)) = retval

\* the second computer has no edge from the sensor: another type for it gives
\* the same result, another type for the first computer does not
C22_Witness ==
    /\ Returned("calc_failure_rate")
    /\ call.computer_types = <<"A", "A">> /\ call.conns = << <<0, 0>> >>
    /\ call.actuator_types = Some(<<"A">>) /\ call.act_conns = Some(<< <<0, 0>>, <<1, 0>> >>)
    /\ ~FedComputer(call, 2) /\ FedActuator(call, 1)
    /\ FloatResultOf(Retyped(call, "C", 2, "B")) = retval
    /\ FloatResultOf(Retyped(call, "C", 1, "B")) # retval

\* a <= b for binary64 numbers a, b >= 0
RECURSIVE LimbsLeq(_, _, _)
LimbsLeq(x, y, i) ==
    IF i = 0 THEN TRUE
    ELSE IF x[i] # y[i] THEN x[i] < y[i]
    ELSE LimbsLeq(x, y, i - 1)

FLeq(a, b) ==
    \/ a.m = <<>>
    \/ /\ b.m # <<>>
       /\ \/ a.e < b.e
          \/ a.e = b.e /\ LimbsLeq(a.m, b.m, Len(a.m))

\* the edges between existing units that the call does not have
AbsentEdges(edges, n_src, n_tgt) ==
    {e \in (0 .. n_src - 1) \X (0 .. n_tgt - 1) : \A k \in 1 .. Len(edges) : edges[k] # e}

\* the call with one more edge in one of its two edge lists
WithEdges(c) ==
    {[c EXCEPT !.conns = Append(@, e)] :
        e \in AbsentEdges(c.conns, Len(c.sensor_types), Len(c.computer_types))}
    \cup
    (IF c.actuator_types = None THEN {}
     ELSE {[c EXCEPT !.act_conns = Some(Append(@.val, e))] :
              e \in AbsentEdges(c.act_conns.val, Len(c.computer_types),
                                Len(c.actuator_types.val))})

\* the probability the call computes before the log transform, in binary64
FloatProbabilityOf(c) == FloatResultOf(c).value.arg

\* 1 + 2^-50: four units in the last place of a binary64 number
RoundingSlack == FAdd(FOne, [m |-> FOne.m, e |-> FOne.e - 50])

\* C23 as stated: adding an edge to a topology, units and types fixed, never
\* increases the failure probability calc_failure_rate computes
C23_EdgeNeverIncreases ==
    (Returned("calc_failure_rate") /\ IsTopology(call)) =>
        \A more \in WithEdges(call) : FLeq(FloatProbabilityOf(more), Probability)

\* C23 amended: adding an edge never increases the failure probability in
\* exact arithmetic, and the probability computed in binary64 grows by no
\* more than rounding, a factor of 1 + 2^-50
C23_EdgeNeverIncreasesBeyondRounding ==
    (Returned("calc_failure_rate") /\ IsTopology(call)) =>
        \A more \in WithEdges(call) :
            /\ DLeq(ProbabilityOf(more), ProbabilityOf(call))
            /\ FLeq(FloatProbabilityOf(more), FMul(Probability, RoundingSlack))

\* a sensor with an edge to the first of two computers, which has an edge to
\* the actuator: the edge to the second computer, which has none, leaves the
\* exact probability as it is and raises the computed one
C23_Witness ==
    /\ Returned("calc_failure_rate")
    /\ call.computer_types = <<"A", "A">> /\ call.conns = << <<0, 0>> >>
    /\ call.actuator_types = Some(<<"A">>) /\ call.act_conns = Some(<< <<0, 0>> >>)
    /\ LET more == [call EXCEPT !.conns = Append(@, <<0, 1>>)]
       IN  /\ more \in WithEdges(call)
           /\ DEq(ProbabilityOf(more), ProbabilityOf(call))
           /\ ~FLeq(FloatProbabilityOf(more), Probability)
           /\ FLeq(FloatProbabilityOf(more), FMul(Probability, RoundingSlack))

\* the edge lists of at most one entry more that hold the same edges as the
\* given list: the list reordered, and with an edge repeated anywhere
SameEdges(edges) ==
    LET set == {edges[k] : k \in 1 .. Len(edges)}
    IN  {l \in UNION {[1 .. n -> set] : n \in Len(edges) .. Len(edges) + 1} :
            {l[k] : k \in 1 .. Len(l)} = set}

\* C24: the result of calc_failure_rate depends only on the set of edges of
\* each transition: an edge list reordered, or with an edge repeated, gives
\* the same result
C24_EdgeSetOnly ==
    (Returned("calc_failure_rate") /\ IsTopology(call)) =>
        /\ \A l \in SameEdges(call.conns) :
              FloatResultOf([call EXCEPT !.conns = l]) = retval
        /\ call.actuator_types # None =>
              \A l \in SameEdges(call.act_conns.val) :
                  FloatResultOf([call EXCEPT !.act_conns = Some(l)]) = retval

\* two sensor-to-computer edges: listed the other way round and with the
\* first one listed twice, the result is the same; one of them alone gives
\* another result
C24_Witness ==
    /\ Returned("calc_failure_rate")
    /\ call.conns = << <<0, 0>>, <<0, 1>> >>
    /\ call.actuator_types # None /\ call.act_conns = Some(<< <<0, 0>>, <<1, 0>> >>)
    /\ << <<0, 1>>, <<0, 0>> >> \in SameEdges(call.conns)
    /\ << <<0, 0>>, <<0, 1>>, <<0, 0>> >> \in SameEdges(call.conns)
    /\ FloatResultOf([call EXCEPT !.conns = << <<0, 1>>, <<0, 0>> >>]) = retval
    /\ FloatResultOf([call EXCEPT !.conns = << <<0, 0>>, <<0, 1>>, <<0, 0>> >>]) = retval
    /\ FloatResultOf([call EXCEPT !.conns = << <<0, 0>> >>]) # retval

\* ---- C25 ----
\* the input file and the written file of the finished gnc_json_evaluate
LoadedData == call.input
WrittenData == output_file.val

\* the arguments the finished gnc_json_evaluate handed to GNCCalculator
MetricArgs == JsonExtracted(LoadedData).value

\* C25: the file gnc_json_evaluate writes is its input with the value and the
\* units "kg" set on every output entry whose ref is "mass" and the value set
\* on every output entry whose ref is "failure-rate": the architecture part,
\* the number and order of the output entries, every other entry and every
\* other field of a matched entry are the input's.
C25_OnlyMetricEntriesChange ==
    Returned("gnc_json_evaluate") =>
        /\ output_file # None
        /\ DOMAIN WrittenData = DOMAIN LoadedData
        /\ WrittenData.architecture = LoadedData.architecture
        /\ Len(WrittenData.outputs) = Len(LoadedData.outputs)
        /\ \A k \in 1 .. Len(LoadedData.outputs) :
              LET old == LoadedData.outputs[k]
                  new == WrittenData.outputs[k]
                  a   == MetricArgs
              IN  /\ DOMAIN new = DOMAIN old
                  /\ new.ref = old.ref
                  /\ old.ref = "mass" =>
                        /\ new.value = Some(CalcMass(a.sensor_types, a.computer_types,
                                                     a.actuator_types).value)
                        /\ new.units = Some("kg")
                  /\ old.ref = "failure-rate" =>
                        /\ new.value = Some(CalcFailureRate(a.sensor_types, a.computer_types,
                                                            a.conns, a.actuator_types,
                                                            a.act_conns).value)
                        /\ new.units = old.units
                  /\ old.ref \notin {"mass", "failure-rate"} => new = old

\* an input whose entries carry units of their own was evaluated: the entry
\* of another ref and the units of the failure-rate entry are written as read
C25_Witness ==
    /\ Returned("gnc_json_evaluate")
    /\ Len(LoadedData.outputs) = 3
    /\ LoadedData.outputs[1].ref = "power"
    /\ LoadedData.outputs[1].units = Some("W")
    /\ WrittenData.outputs[1] = LoadedData.outputs[1]
    /\ LoadedData.outputs[2].ref = "failure-rate"
    /\ WrittenData.outputs[2].units = Some("log10")
    /\ WrittenData.outputs[2].value # None
    /\ LoadedData.outputs[3].units = Some("g")
    /\ WrittenData.outputs[3].units = Some("kg")

\* ---- the tell-ask loop of 05_remote_file_based/gnc_adore_opt.py ----
\* tell_ask is a function of the adore library: the model lets it leave any
\* input file or none, and keep or consume the output file.  The optimizer
\* asks for a bounded number of evaluations.
MaxAsks == 3

\* the input files tell_ask may write
LoopDocs == {JsonData(a, 0, StdOutputs) : a \in FullArchs \cup BadTypeArchs}

\* lines 115-119: the temporary directory is new, it holds neither file;
\* log records the calls the loop has made
StartLoop ==
    /\ pc = "idle"
    /\ call' = [op |-> "__main__", input_file |-> None, asks |-> 0, log |-> <<>>]
    /\ output_file' = None
    /\ pc' = "tell_ask"
    /\ UNCHANGED <<mass, failure_rate, failure_rates, conn_matrices, stack, retval>>

\* line 122
TellAsk ==
    /\ pc = "tell_ask"
    /\ \E in \in {None} \cup (IF call.asks < MaxAsks THEN {Some(d) : d \in LoopDocs} ELSE {}),
          out \in {None, output_file} :
          /\ call' = [call EXCEPT
                        !.input_file = in,
                        !.asks = @ + (IF in = None THEN 0 ELSE 1),
                        !.log = Append(@, [op |-> "tell_ask",
                                           output_exists |-> output_file # None,
                                           input_exists |-> in # None])]
          /\ output_file' = out
    /\ pc' = "exists"
    /\ UNCHANGED <<mass, failure_rate, failure_rates, conn_matrices, stack, retval>>

\* the loop as it would be without the test of lines 125-126
CheckInputFile_NoBreak ==
    /\ pc = "exists"
    /\ pc' = "evaluate"
    /\ UNCHANGED <<mass, failure_rate, failure_rates, conn_matrices, stack, call,
                   retval, output_file>>

\* lines 125-126
CheckInputFile ==
    /\ pc = "exists"
    /\ pc' = IF call.input_file = None THEN "break" ELSE "evaluate"
    /\ UNCHANGED <<mass, failure_rate, failure_rates, conn_matrices, stack, call,
                   retval, output_file>>

\* line 130: open() raises when there is no input file
LoopEvaluate ==
    /\ pc = "evaluate"
    /\ LET done == IF call.input_file = None
                   THEN Done(Raise("FileNotFoundError"), None)
                   ELSE JsonEvaluate(call.input_file.val)
       IN  /\ retval' = done.result
           /\ pc' = IF done.result.tag = "raise" THEN "raised" ELSE "assert"
           /\ output_file' = IF done.written # None THEN done.written ELSE output_file
    /\ call' = [call EXCEPT !.log = Append(@, [op |-> "gnc_json_evaluate"])]
    /\ UNCHANGED <<mass, failure_rate, failure_rates, conn_matrices, stack>>

\* line 131
AssertOutputFile ==
    /\ pc = "assert"
    /\ pc' = IF output_file # None THEN "tell_ask" ELSE "raised"
    /\ retval' = IF output_file # None THEN retval ELSE Raise("AssertionError")
    /\ UNCHANGED <<mass, failure_rate, failure_rates, conn_matrices, stack, call,
                   output_file>>

NextLoop == StartLoop \/ TellAsk \/ CheckInputFile \/ LoopEvaluate \/ AssertOutputFile

SpecLoop == Init /\ [][NextLoop]_vars

\* ---- C26 ----
\* the calls the loop has made, in order
LoopLog == call.log

InLoopRun == call.op = "__main__" /\ pc # "idle"

\* C26: in the tell-ask loop tell_ask and the evaluation alternate, the first
\* call being a tell_ask; every evaluation directly follows a tell_ask after
\* which the input file exists; at every tell_ask after the first the output
\* file exists; a tell_ask after which no input file exists is the last call
\* of the loop, and the loop's next step is the break.
C26_TellAskAlternates ==
    InLoopRun =>
        /\ \A k \in 1 .. Len(LoopLog) :
              /\ LoopLog[k].op = (IF k % 2 = 1 THEN "tell_ask" ELSE "gnc_json_evaluate")
              /\ LoopLog[k].op = "gnc_json_evaluate" => LoopLog[k - 1].input_exists
              /\ (LoopLog[k].op = "tell_ask" /\ k > 1) => LoopLog[k].output_exists
              /\ (LoopLog[k].op = "tell_ask" /\ ~LoopLog[k].input_exists) =>
                    /\ k = Len(LoopLog)
                    /\ pc \in {"exists", "break"}
        /\ pc = "break" => /\ LoopLog # <<>>
                           /\ ~LoopLog[Len(LoopLog)].input_exists
        /\ pc = "evaluate" => call.input_file # None
        /\ pc = "tell_ask" /\ LoopLog # <<>> => output_file # None

\* the loop left by the break after two evaluations
C26_Witness ==
    /\ InLoopRun
    /\ pc = "break"
    /\ Len(LoopLog) = 5
    /\ LoopLog[2].op = "gnc_json_evaluate"
    /\ LoopLog[4].op = "gnc_json_evaluate"
    /\ LoopLog[3].output_exists
    /\ ~LoopLog[5].input_exists

\* ---- C3 in the program's arithmetic ----
\* C3 as stated: giving one unit a type with a higher failure rate, all else
\* fixed, never lowers the failure probability calc_failure_rate computes
C3_MonotonicityFloat ==
    (Returned("calc_failure_rate") /\ IsTopology(call)) =>
        \A stage \in {"S", "C", "A"} :
          \A i \in 1 .. Len(StageTypes(call, stage)) :
            \A label \in Labels :
              failure_rate[stage][label] >= failure_rate[stage][StageTypes(call, stage)[i]]
                => FLeq(FloatProbabilityOf(call),
                        FloatProbabilityOf(Retyped(call, stage, i, label)))

\* C3 amended: giving one unit a type with a higher failure rate never lowers
\* the failure probability in exact arithmetic, and the probability computed
\* in binary64 drops by no more than rounding, a factor of 1 + 2^-50
C3_MonotoneUpToRounding ==
    /\ C3_Monotonicity
    /\ (Returned("calc_failure_rate") /\ IsTopology(call)) =>
        LET computed == FloatProbabilityOf(call)
        IN  \A stage \in {"S", "C", "A"} :
              \A i \in 1 .. Len(StageTypes(call, stage)) :
                \A label \in Labels \ {StageTypes(call, stage)[i]} :
                  failure_rate[stage][label] >= failure_rate[stage][StageTypes(call, stage)[i]]
                    => FLeq(computed,
                            FMul(FloatProbabilityOf(Retyped(call, stage, i, label)),
                                 RoundingSlack))

=============================================================================
